---- MODULE Spec2Model ----
(***************************************************************************)
(* Model of the parchment log router: the relay writer (replicate.Writer), *)
(* its disk spool (package disk), the client session it sends over         *)
(* (net.Writer) and the server side of a connection (Input.serve).         *)
(*                                                                         *)
(* Records are numbered 1, 2, ... in the order they are handed to          *)
(* WriteChain; a chain is a sequence of record numbers.                    *)
(***************************************************************************)
EXTENDS Integers, Sequences, FiniteSets, TLC

\* ------------------------------------------------------------------ bounds
MaxRec == 3          \* records handed to the relay writer
MaxChainLen == 2     \* longest chain handed to WriteChain in one call
MaxNetFail == 2      \* dial and send failures the network may produce
MaxDiskErr == 1      \* spool operations that may fail
MaxFileSize == 2     \* segment budget, in encoded-size units (RecSize each)
MaxFrames == 2       \* CHAIN frames a client sends on one connection
MaxFrameLen == 2     \* records in one CHAIN frame
MaxDiskChain == 3    \* longest chain handed to disk.Writer.WriteChain directly
MaxReconf == 3       \* calls of InputManager.Reconfigure
MaxRules == 3        \* output rules in one configuration
MaxConn == 2         \* connections one input accepts
MaxSignals == 2      \* SIGHUP / SIGTERM signals delivered to main
MaxProc == 2         \* goroutines calling GetWriter on one daily sink
MaxTime == 4         \* last tick of the clock
TicksPerDay == 2     \* clock ticks in one local day
RecSize == 1         \* encoded size of one record

Nil == 0             \* the nil pointer / "no record"
NoFile == -1         \* disk.Writer.f == nil, and "no suffix"

\* ----------------------------------------------------------------- helpers
Range(s) == {s[i] : i \in 1..Len(s)}

Last(s) == s[Len(s)]

SetMax(S) == CHOOSE x \in S : \A y \in S : y <= x

SetMin(S) == CHOOSE x \in S : \A y \in S : x <= y

PosOf(s, x) == IF x \in Range(s) THEN CHOOSE i \in 1..Len(s) : s[i] = x ELSE 0

\* number of occurrences of x in s
Count(s, x) == Cardinality({i \in 1..Len(s) : s[i] = x})

\* index of the first occurrence of x in s (0 when absent)
FirstPos(s, x) == IF x \in Range(s) THEN SetMin({i \in 1..Len(s) : s[i] = x}) ELSE 0

VARIABLES
  \* replicate.Writer fields
  closed, diskErr, incoming, incomingTail, processCount,
  \* the mutex and the process
  lock, panicked,
  \* the state task (runConnecting / runReplicating / runConnected)
  pc, allowClose, dwFresh, wIncoming, wTail, remoteConnection,
  remoteConnectionErr, dial, wantClose, done, fileList, entries,
  \* disk.Writer and the spool directory
  dwF, sizeRemaining, bwErr, spool, deleted, passDeleted,
  \* the upstream and the network
  observed, lostAck, netFails, diskErrs, lastSend,
  \* callers of WriteChain and Close
  nextRec, accepted, rejected, lastWrite, closeCalled, closeReturned, closeResult,
  \* the server side of one accepted connection (Input.serve)
  svPc, svOc, svChain, svFrame, svFrameNo, lastReadCount, svProcResult, svOut,
  svAcks, connOpen, svNextId,
  \* the handshake of that connection (pnet.NewConnReader)
  svHello, svAckSent,
  \* a client session (net.Writer) talking to some peer
  ctPc, ctConn, ctReply, ctFrames, ctLast,
  \* a configuration being loaded and used for routing (loadConfig)
  rtRules, rtOutputs, rtState, rtFound,
  \* main: the config variable, the signal handlers and their lock
  mConfig, mChains, hPc, hOld, hToClose, mSignals, mLastLoad, mPanicked, mExited,
  \* InputManager.currentChain
  imCurrent,
  \* one Input: listener, accept loop, accepted connections
  inListening, inClosing, inRun, inConnections, cPc, cOpen, cChain, cSeen, cEnd,
  \* a SafeDailyFile, the clock, the files it opened, its callers
  sdfLock, nextRotation, sdfWg, sdfWriter, dNow, dFiles, dPanicked,
  gPc, gNow, gHandle, clPc, clW,
  \* a FileProcessor, its sinks, the callers of WriteChain and of Close
  fpLocked, fpFiles, fpClosed, fpWg, fpSinks, fwPc, fwChain, fwErr, fcPc, fcFiles,
  \* the last call of disk.Writer.WriteChain made on a writer by itself
  dkLast,
  \* the records WriteChain had accepted when Close was called
  closeSeen,
  \* a producer-side writer (netwriter.W), its Run loop, the upstream it feeds
  nwPending, nwClosed, nwPc, nwMsg, nwClosing, nwSent, nwTried, nwFails,
  nwNextMsg, nwAccepted, nwCloses, nwCloseSeen,
  \* InputManager.inputs, the listeners ever opened, the last Reconfigure
  imInputs, rcListeners, rcLast, rcCount

sharedVars == <<closed, diskErr, incoming, incomingTail, processCount>>
procVars == <<lock, panicked>>
taskVars == <<pc, allowClose, dwFresh, wIncoming, wTail, remoteConnection,
              remoteConnectionErr, dial, wantClose, done, fileList, entries>>
diskVars == <<dwF, sizeRemaining, bwErr, spool, deleted, passDeleted>>
netVars == <<observed, lostAck, netFails, lastSend>>
callerVars == <<nextRec, accepted, rejected, lastWrite, closeCalled, closeReturned, closeResult>>

relayVars == <<sharedVars, procVars, taskVars, diskVars, netVars, diskErrs, callerVars>>

serveVars == <<svPc, svOc, svChain, svFrame, svFrameNo, lastReadCount, svProcResult,
               svOut, svAcks, connOpen, svNextId>>

hsVars == <<svHello, svAckSent>>

clientVars == <<ctPc, ctConn, ctReply, ctFrames, ctLast>>

\* what a step of the relay writer, of Input.serve, of the client session
\* leaves alone
routerVars == <<rtRules, rtOutputs, rtState, rtFound>>

handlerVars == <<mConfig, hPc, hOld, hToClose, mSignals, mLastLoad, mExited>>
inputVars == <<inListening, inClosing, inRun, inConnections>>
connVars == <<cPc, cOpen, cChain, cSeen, cEnd>>
mainVars == <<handlerVars, mChains, mPanicked, imCurrent, inputVars, connVars>>

sdfVars == <<sdfLock, nextRotation, sdfWg, sdfWriter>>
getterVars == <<gPc, gNow, gHandle>>
closerVars == <<clPc, clW>>
dailyVars == <<sdfVars, dNow, dFiles, dPanicked, getterVars, closerVars>>

fpVars == <<fpLocked, fpFiles, fpClosed, fpWg, fpSinks, fwPc, fwChain, fwErr, fcPc,
           fcFiles>>

nwVars == <<nwPending, nwClosed, nwPc, nwMsg, nwClosing, nwSent, nwTried, nwFails,
           nwNextMsg, nwAccepted, nwCloses, nwCloseSeen>>

rcVars == <<imInputs, rcListeners, rcLast, rcCount>>

relayFrameOther == <<serveVars, hsVars, clientVars, routerVars, mainVars, dailyVars, fpVars, nwVars, rcVars>>
relayFrame == <<relayFrameOther, dkLast, closeSeen>>
serveFrame == <<relayVars, clientVars, routerVars, mainVars, dailyVars, fpVars, dkLast, closeSeen, nwVars, rcVars>>
clientFrame == <<relayVars, serveVars, hsVars, routerVars, mainVars, dailyVars, fpVars, dkLast, closeSeen, nwVars, rcVars>>
routerFrame == <<relayVars, serveVars, hsVars, clientVars, mainVars, dailyVars, fpVars, dkLast, closeSeen, nwVars, rcVars>>
mainFrame == <<relayVars, serveVars, hsVars, clientVars, routerVars, dailyVars, fpVars, dkLast, closeSeen, nwVars, rcVars>>
dailyFrame == <<relayVars, serveVars, hsVars, clientVars, routerVars, mainVars, fpVars, dkLast, closeSeen, nwVars, rcVars>>

fpFrame == <<relayVars, serveVars, hsVars, clientVars, routerVars, mainVars, dailyVars, dkLast, closeSeen, nwVars, rcVars>>
nwFrame == <<relayVars, serveVars, hsVars, clientVars, routerVars, mainVars, dailyVars,
             fpVars, dkLast, closeSeen, rcVars>>

rcFrame == <<relayVars, serveVars, hsVars, clientVars, routerVars, mainVars, dailyVars,
             fpVars, dkLast, closeSeen, nwVars>>

vars == <<relayVars, serveVars, hsVars, clientVars, routerVars, mainVars, dailyVars,
          fpVars, dkLast, closeSeen, nwVars, rcVars>>

\* ------------------------------------------------------------ package disk

\* Config.GetNewestFileSuffix: the largest suffix in the directory, -1 if none
GetNewestFileSuffix(sp) == IF DOMAIN sp = {} THEN NoFile ELSE SetMax(DOMAIN sp)

\* variant: the newest suffix of the listing is taken instead of the oldest
GetOldestFileSuffix_Newest(fl) == IF fl = {} THEN NoFile ELSE SetMax(fl)

\* Config.GetOldestFileSuffix on a cached listing: the smallest suffix, -1 if none
GetOldestFileSuffix(fl) == IF fl = {} THEN NoFile ELSE SetMin(fl)

\* variant: the listing comes back without any segment
PopulateFileList_Empty(sp) == {}

\* Config.PopulateFileList: the suffixes of the segments now in the directory
PopulateFileList(sp) == DOMAIN sp

\* binfmt.SplitChain(chain, budget): number of leading records kept in the
\* chain; the first record is always kept
SplitChain(chain, budget) ==
  LET fits == {k \in 1..Len(chain) : k * RecSize <= budget}
  IN IF fits = {} THEN 1 ELSE SetMax(fits)

\* variant: one suffix is skipped
openBackupFile_SkipOne(sp) ==
  LET suffix == GetNewestFileSuffix(sp) + 2
  IN [f |-> suffix, rem |-> MaxFileSize,
      sp |-> [s \in DOMAIN sp \cup {suffix} |-> IF s \in DOMAIN sp THEN sp[s] ELSE <<>>]]

\* Writer.openBackupFile: create segment newest+1 and reset the budget
openBackupFile(sp) ==
  LET suffix == GetNewestFileSuffix(sp) + 1
  IN [f |-> suffix, rem |-> MaxFileSize,
      sp |-> [s \in DOMAIN sp \cup {suffix} |-> IF s \in DOMAIN sp THEN sp[s] ELSE <<>>]]

\* variant: the loop stops after its first iteration
WriteLoop_Once(chain, f, rem, sp, buf) ==
  IF chain = <<>> THEN [f |-> f, rem |-> rem, sp |-> sp, buf |-> buf]
  ELSE LET o == IF f = NoFile THEN openBackupFile(sp)
                ELSE [f |-> f, rem |-> rem, sp |-> sp]
           k == SplitChain(chain, o.rem)
       IN [f |-> o.f, rem |-> o.rem - k * RecSize, sp |-> o.sp,
           buf |-> buf \o SubSeq(chain, 1, k)]

\* the split loop of disk.Writer.WriteChain: every iteration encodes the head
\* that SplitChain left into the buffered writer of the file that is open
RECURSIVE WriteLoop(_, _, _, _, _)
WriteLoop(chain, f, rem, sp, buf) ==
  IF chain = <<>> THEN [f |-> f, rem |-> rem, sp |-> sp, buf |-> buf]
  ELSE LET o == IF f = NoFile THEN openBackupFile(sp)
                ELSE [f |-> f, rem |-> rem, sp |-> sp]
           k == SplitChain(chain, o.rem)
       IN WriteLoop(SubSeq(chain, k + 1, Len(chain)), o.f, o.rem - k * RecSize,
                    o.sp, buf \o SubSeq(chain, 1, k))

\* disk.Writer.WriteChain. how is what the file system does:
\*   "ok"     every write, and the flush, succeed
\*   "open"   openBackupFile fails
\*   "encode" EncodeBuffer fails (also: flush and fsync both fail)
\*   "flush"  the flush fails and the fsync after it succeeds
\* The result is the error returned, the new writer and directory, whether
\* bw.Flush() returned nil and whether f.Sync() was called and returned nil.
DiskWriteChain(chain, how, f, rem, bw, sp) ==
  IF how = "open" THEN [err |-> TRUE, f |-> f, rem |-> rem, bw |-> bw, sp |-> sp,
                        flushed |-> FALSE, synced |-> FALSE]
  ELSE
    LET w == WriteLoop(chain, f, rem, sp, <<>>)
        first == IF f = NoFile THEN openBackupFile(sp) ELSE [f |-> f, rem |-> rem, sp |-> sp]
    IN IF how = "encode" \/ (bw /\ f # NoFile)
       THEN [err |-> TRUE, f |-> first.f, rem |-> first.rem,
             bw |-> TRUE, sp |-> first.sp, flushed |-> FALSE, synced |-> FALSE]
       ELSE LET flushed == IF how = "ok"
                           THEN [w.sp EXCEPT ![w.f] = @ \o w.buf]
                           ELSE w.sp
                roll == w.rem <= 0
            IN [err |-> FALSE,
                f |-> IF roll THEN NoFile ELSE w.f,
                rem |-> w.rem,
                bw |-> how = "flush",
                sp |-> flushed,
                flushed |-> how = "ok",
                synced |-> how = "flush"]

\* ------------------------------------------------- replicate.Writer: callers

\* WaitGroup.Done on w.process: a negative counter panics
ProcessDone ==
  /\ processCount' = processCount - 1
  /\ panicked' = (processCount - 1 < 0)

\* variant: WriteChain does not look at diskErr
WriteChainErr_Ignored == FALSE

\* Writer.WriteChain: "err := w.diskErr", read under the lock
WriteChainErr == diskErr

\* Writer.WriteChain(chain) with a chain of n fresh records
WriteChain(n) ==
  /\ ~panicked /\ lock = "free"
  /\ nextRec + n - 1 <= MaxRec
  /\ LET chain == [i \in 1..n |-> nextRec + i - 1]
         tail == Last(chain)
     IN /\ nextRec' = nextRec + n
        /\ IF WriteChainErr
           THEN /\ rejected' = rejected \cup Range(chain)
                /\ lastWrite' = [chain |-> chain, err |-> TRUE]
                /\ UNCHANGED <<incoming, incomingTail, accepted, panicked, wIncoming>>
           ELSE IF incoming = <<>>
           THEN /\ incoming' = chain
                /\ incomingTail' = tail
                /\ accepted' = accepted \cup Range(chain)
                /\ lastWrite' = [chain |-> chain, err |-> FALSE]
                /\ UNCHANGED <<rejected, panicked, wIncoming>>
           ELSE IF incomingTail = Nil
           THEN \* w.incomingTail.Next on a nil pointer
                /\ panicked' = TRUE
                /\ UNCHANGED <<incoming, incomingTail, accepted, rejected, lastWrite, wIncoming>>
           ELSE /\ IF incomingTail \in Range(incoming)
                   THEN /\ incoming' = SubSeq(incoming, 1, PosOf(incoming, incomingTail)) \o chain
                        /\ UNCHANGED wIncoming
                   ELSE /\ wIncoming' = IF incomingTail \in Range(wIncoming)
                                        THEN SubSeq(wIncoming, 1, PosOf(wIncoming, incomingTail)) \o chain
                                        ELSE wIncoming
                        /\ UNCHANGED incoming
                /\ incomingTail' = tail
                /\ accepted' = accepted \cup Range(chain)
                /\ lastWrite' = [chain |-> chain, err |-> FALSE]
                /\ UNCHANGED <<rejected, panicked>>
  /\ UNCHANGED <<closed, diskErr, processCount, lock, diskVars, netVars, diskErrs,
                 closeCalled, closeReturned, closeResult>>
  /\ UNCHANGED <<pc, allowClose, dwFresh, wTail, remoteConnection,
                 remoteConnectionErr, dial, wantClose, done, fileList, entries>>
  /\ UNCHANGED relayFrame

\* variant: Close sets closed without taking the mutex
CloseCall_NoLock ==
  /\ ~panicked /\ ~closeCalled
  /\ closed' = TRUE
  /\ closeCalled' = TRUE
  /\ closeSeen' = accepted
  /\ UNCHANGED <<diskErr, incoming, incomingTail, processCount, procVars, taskVars,
                 diskVars, netVars, diskErrs, nextRec, accepted, rejected, lastWrite,
                 closeReturned, closeResult>>
  /\ UNCHANGED <<relayFrameOther, dkLast>>

\* Writer.Close, first half: set closed under the lock and signal
CloseCall ==
  /\ ~panicked /\ lock = "free" /\ ~closeCalled
  /\ closed' = TRUE
  /\ closeCalled' = TRUE
  /\ closeSeen' = accepted
  /\ UNCHANGED <<diskErr, incoming, incomingTail, processCount, procVars, taskVars,
                 diskVars, netVars, diskErrs, nextRec, accepted, rejected, lastWrite,
                 closeReturned, closeResult>>
  /\ UNCHANGED <<relayFrameOther, dkLast>>

\* Writer.Close, second half: w.process.Wait() returned; read diskErr under the lock
CloseReturn ==
  /\ ~panicked /\ lock = "free" /\ closeCalled /\ ~closeReturned
  /\ processCount = 0
  /\ closeReturned' = TRUE
  /\ closeResult' = diskErr
  /\ UNCHANGED <<sharedVars, procVars, taskVars, diskVars, netVars, diskErrs,
                 nextRec, accepted, rejected, lastWrite, closeCalled>>
  /\ UNCHANGED relayFrame

\* --------------------------------------- replicate.Writer: state CONNECTING

\* what a spool operation may do: fail only while the failure budget lasts
DiskOutcomes(hows) == {"ok"} \cup (IF diskErrs < MaxDiskErr THEN hows ELSE {})

NetOutcomes(hows) == {"ok"} \cup (IF netFails < MaxNetFail THEN hows ELSE {})

\* runConnecting(dw, allowClose): take the lock, make the disk writer when
\* dw == nil, start the dial goroutine
RunConnectingEnter ==
  /\ ~panicked /\ lock = "free" /\ pc = "cg_enter"
  /\ lock' = "worker"
  /\ IF dwFresh
     THEN dwF' = NoFile /\ sizeRemaining' = 0 /\ bwErr' = FALSE
     ELSE UNCHANGED <<dwF, sizeRemaining, bwErr>>
  /\ dial' = "dialing"
  /\ remoteConnection' = FALSE
  /\ remoteConnectionErr' = FALSE
  /\ pc' = "cg_loop"
  /\ UNCHANGED <<sharedVars, panicked, allowClose, dwFresh, wIncoming, wTail, wantClose,
                 done, fileList, entries, spool, deleted, passDeleted, netVars,
                 diskErrs, callerVars>>
  /\ UNCHANGED relayFrame

\* the dial goroutine: ConnectTimeout returns, then the result is stored under
\* the lock (a session that arrives after closed is closed and dropped)
Dial(how) ==
  /\ ~panicked /\ lock = "free" /\ dial = "dialing"
  /\ how \in NetOutcomes({"fail"})
  /\ dial' = "done"
  /\ IF how = "ok"
     THEN /\ remoteConnection' = ~closed
          /\ UNCHANGED <<remoteConnectionErr, netFails>>
     ELSE /\ remoteConnectionErr' = TRUE
          /\ netFails' = netFails + 1
          /\ UNCHANGED remoteConnection
  /\ UNCHANGED <<sharedVars, procVars, pc, allowClose, dwFresh, wIncoming, wTail,
                 wantClose, done, fileList, entries, diskVars, observed, lostAck,
                 lastSend, diskErrs, callerVars>>
  /\ UNCHANGED relayFrame

\* the dial goroutine while the upstream refuses every connection:
\* ConnectTimeout returns an error, stored under the lock
DialRefused ==
  /\ ~panicked /\ lock = "free" /\ dial = "dialing"
  /\ dial' = "done"
  /\ remoteConnectionErr' = TRUE
  /\ UNCHANGED <<sharedVars, procVars, pc, allowClose, dwFresh, wIncoming, wTail,
                 remoteConnection, wantClose, done, fileList, entries, diskVars,
                 netVars, diskErrs, callerVars>>
  /\ UNCHANGED relayFrame

\* top of the loop of runConnecting: detach the queue, wait if nothing to do
CgLoop ==
  /\ ~panicked /\ lock = "worker" /\ pc = "cg_loop"
  /\ wIncoming' = incoming
  /\ incoming' = <<>>
  /\ IF ~closed /\ incoming = <<>> /\ ~remoteConnection /\ ~remoteConnectionErr
     THEN pc' = "cg_wait" /\ lock' = "free"
     ELSE IF incoming # <<>>
     THEN pc' = "cg_write" /\ lock' = "free"
     ELSE pc' = "cg_check" /\ lock' = "worker"
  /\ UNCHANGED <<closed, diskErr, incomingTail, processCount, panicked, allowClose,
                 dwFresh, wTail, remoteConnection, remoteConnectionErr, dial,
                 wantClose, done, fileList, entries, diskVars, netVars, diskErrs,
                 callerVars>>
  /\ UNCHANGED relayFrame

\* w.cond.Wait() returns in runConnecting
CgWake ==
  /\ ~panicked /\ lock = "free" /\ pc = "cg_wait"
  /\ closed \/ incoming # <<>> \/ remoteConnection \/ remoteConnectionErr
  /\ lock' = "worker"
  /\ pc' = "cg_loop"
  /\ UNCHANGED <<sharedVars, panicked, allowClose, dwFresh, wIncoming, wTail,
                 remoteConnection, remoteConnectionErr, dial, wantClose, done,
                 fileList, entries, diskVars, netVars, diskErrs, callerVars>>
  /\ UNCHANGED relayFrame

\* dw.WriteChain(incoming) outside the lock, then the error check under it
CgWrite(how) ==
  /\ ~panicked /\ lock = "free" /\ pc = "cg_write"
  /\ how \in DiskOutcomes({"encode", "flush"} \cup (IF dwF = NoFile THEN {"open"} ELSE {}))
  /\ LET r == DiskWriteChain(wIncoming, how, dwF, sizeRemaining, bwErr, spool)
     IN /\ dwF' = r.f
        /\ sizeRemaining' = r.rem
        /\ bwErr' = r.bw
        /\ spool' = r.sp
        /\ lock' = "worker"
        /\ IF r.err
           THEN /\ diskErr' = TRUE
                /\ closed' = TRUE
                /\ ProcessDone
                /\ pc' = "cg_loop"
           ELSE /\ pc' = "cg_check"
                /\ UNCHANGED <<diskErr, closed, processCount, panicked>>
  /\ diskErrs' = IF how = "ok" THEN diskErrs ELSE diskErrs + 1
  /\ UNCHANGED <<incoming, incomingTail, allowClose, dwFresh, wIncoming, wTail,
                 remoteConnection, remoteConnectionErr, dial, wantClose, done,
                 fileList, entries, deleted, passDeleted, netVars, callerVars>>
  /\ UNCHANGED relayFrame

\* "close requested?"
CgCheck ==
  /\ ~panicked /\ lock = "worker" /\ pc = "cg_check"
  /\ IF closed /\ allowClose
     THEN pc' = "cg_wgwait" /\ lock' = "free"
     ELSE pc' = "cg_conn" /\ lock' = "worker"
  /\ UNCHANGED <<sharedVars, panicked, allowClose, dwFresh, wIncoming, wTail,
                 remoteConnection, remoteConnectionErr, dial, wantClose, done,
                 fileList, entries, diskVars, netVars, diskErrs, callerVars>>
  /\ UNCHANGED relayFrame

\* wg.Wait() for the dial goroutine, then exit once the queue is empty
CgWgWait ==
  /\ ~panicked /\ lock = "free" /\ pc = "cg_wgwait"
  /\ dial = "done"
  /\ remoteConnection' = FALSE
  /\ IF incoming = <<>>
     THEN /\ ProcessDone
          /\ pc' = "exited"
          /\ lock' = "free"
     ELSE /\ pc' = "cg_conn"
          /\ lock' = "worker"
          /\ UNCHANGED <<processCount, panicked>>
  /\ UNCHANGED <<closed, diskErr, incoming, incomingTail, allowClose, dwFresh,
                 wIncoming, wTail, remoteConnectionErr, dial, wantClose, done,
                 fileList, entries, diskVars, netVars, diskErrs, callerVars>>
  /\ UNCHANGED relayFrame

\* "did we fail to connect?" / "if we have a connection ..."
CgConn ==
  /\ ~panicked /\ lock = "worker" /\ pc = "cg_conn"
  /\ IF remoteConnectionErr
     THEN /\ pc' = "cg_enter"
          /\ allowClose' = TRUE
          /\ dwFresh' = FALSE
          /\ lock' = "free"
     ELSE IF remoteConnection
     THEN /\ pc' = "cg_dwclose"
          /\ lock' = "free"
          /\ UNCHANGED <<allowClose, dwFresh>>
     ELSE /\ pc' = "cg_loop"
          /\ lock' = "worker"
          /\ UNCHANGED <<allowClose, dwFresh>>
  /\ UNCHANGED <<sharedVars, panicked, wIncoming, wTail, remoteConnection,
                 remoteConnectionErr, dial, wantClose, done, fileList, entries,
                 diskVars, netVars, diskErrs, callerVars>>
  /\ UNCHANGED relayFrame

\* dw.Close() before switching to REPLICATING
CgDwClose(how) ==
  /\ ~panicked /\ lock = "free" /\ pc = "cg_dwclose"
  /\ how \in DiskOutcomes(IF dwF = NoFile THEN {} ELSE {"close"})
  /\ dwF' = NoFile
  /\ IF how = "ok"
     THEN /\ pc' = "rp_enter"
          /\ UNCHANGED <<diskErr, closed, processCount, panicked, remoteConnection, diskErrs>>
     ELSE /\ remoteConnection' = FALSE
          /\ diskErr' = TRUE
          /\ closed' = TRUE
          /\ ProcessDone
          /\ pc' = "exited"
          /\ diskErrs' = diskErrs + 1
  /\ UNCHANGED <<incoming, incomingTail, lock, allowClose, dwFresh, wIncoming, wTail,
                 remoteConnectionErr, dial, wantClose, done, fileList, entries,
                 sizeRemaining, bwErr, spool, deleted, passDeleted, netVars, callerVars>>
  /\ UNCHANGED relayFrame

\* variant: the remove leaves the segment in the directory
RemoveFile_Keep(sp, suffix) == sp

\* the directory without segment suffix
RemoveFile(sp, suffix) == [s \in DOMAIN sp \ {suffix} |-> sp[s]]

\* "go w.runConnecting(nil, true); return" as the worker's next position
GoConnectingFresh ==
  /\ pc' = "cg_enter"
  /\ allowClose' = TRUE
  /\ dwFresh' = TRUE

\* -------------------------------------- replicate.Writer: state REPLICATING

\* runReplicating(dw, remote): a new, empty file list
RunReplicatingEnter ==
  /\ ~panicked /\ lock = "free" /\ pc = "rp_enter"
  /\ fileList' = {}
  /\ passDeleted' = <<>>
  /\ pc' = "rp_load"
  /\ UNCHANGED <<sharedVars, procVars, allowClose, dwFresh, wIncoming, wTail,
                 remoteConnection, remoteConnectionErr, dial, wantClose, done,
                 entries, dwF, sizeRemaining, bwErr, spool, deleted, netVars,
                 diskErrs, callerVars>>
  /\ UNCHANGED relayFrame

\* one iteration of the loop of disk.LoadOldestMessages, called outside the
\* lock: list the directory when the cached list is empty, take the oldest
\* suffix, read the segment; an empty segment is removed and the loop goes on
RpLoad(how) ==
  /\ ~panicked /\ lock = "free" /\ pc = "rp_load"
  /\ how \in DiskOutcomes({"load"})
  /\ LET fl == IF fileList = {} THEN PopulateFileList(spool) ELSE fileList
         suffix == GetOldestFileSuffix(fl)
     IN IF how # "ok" \/ (suffix # NoFile /\ suffix \notin DOMAIN spool)
        THEN \* err != nil && err != io.EOF
             /\ diskErr' = TRUE
             /\ closed' = TRUE
             /\ GoConnectingFresh
             /\ diskErrs' = IF how = "ok" THEN diskErrs ELSE diskErrs + 1
             /\ UNCHANGED <<fileList, entries, spool, deleted, passDeleted>>
        ELSE IF suffix = NoFile
        THEN \* io.EOF: go w.runConnected(remote)
             /\ pc' = "cd_enter"
             /\ fileList' = fl
             /\ UNCHANGED <<diskErr, closed, allowClose, dwFresh, entries, spool,
                            deleted, passDeleted, diskErrs>>
        ELSE IF spool[suffix] # <<>>
        THEN /\ entries' = [Chain |-> spool[suffix], suffix |-> suffix]
             /\ fileList' = fl \ {suffix}
             /\ pc' = "rp_send"
             /\ UNCHANGED <<diskErr, closed, allowClose, dwFresh, spool, deleted,
                            passDeleted, diskErrs>>
        ELSE \* file was empty: remove it and continue
             /\ spool' = RemoveFile(spool, suffix)
             /\ deleted' = Append(deleted, suffix)
             /\ passDeleted' = Append(passDeleted, suffix)
             /\ fileList' = fl \ {suffix}
             /\ pc' = "rp_load"
             /\ UNCHANGED <<diskErr, closed, allowClose, dwFresh, entries, diskErrs>>
  /\ UNCHANGED <<incoming, incomingTail, processCount, procVars, wIncoming, wTail,
                 remoteConnection, remoteConnectionErr, dial, wantClose, done,
                 dwF, sizeRemaining, bwErr, netVars, callerVars>>
  /\ UNCHANGED relayFrame

\* variant: the reply to the CHAIN frame is not checked
WriteChainTimeout_NoAckCheck(chain, how) ==
  [err |-> FALSE,
   observed |-> IF how = "lost" THEN observed ELSE observed \o chain,
   lostAck |-> lostAck]

\* net.Writer.WriteChainTimeout(chain) as seen from both ends. how:
\*   "ok"      the upstream dispatched the frame and its ack arrived
\*   "lost"    the frame did not reach the upstream whole; nothing dispatched
\*   "acklost" the upstream dispatched the frame, the ack did not arrive
WriteChainTimeout(chain, how) ==
  [err |-> how # "ok",
   observed |-> IF how = "lost" THEN observed ELSE observed \o chain,
   lostAck |-> IF how = "acklost" THEN lostAck \cup Range(chain) ELSE lostAck]

\* remote.WriteChainTimeout(entries.Chain) in runReplicating
RpSend(how) ==
  /\ ~panicked /\ lock = "free" /\ pc = "rp_send"
  /\ how \in NetOutcomes({"lost", "acklost"})
  /\ LET r == WriteChainTimeout(entries.Chain, how)
     IN /\ observed' = r.observed
        /\ lostAck' = r.lostAck
        /\ lastSend' = [Chain |-> entries.Chain, err |-> r.err]
        /\ IF r.err
           THEN /\ remoteConnection' = FALSE
                /\ netFails' = netFails + 1
                /\ GoConnectingFresh
           ELSE /\ pc' = "rp_delete"
                /\ UNCHANGED <<remoteConnection, netFails, allowClose, dwFresh>>
  /\ UNCHANGED <<sharedVars, procVars, wIncoming, wTail, remoteConnectionErr, dial,
                 wantClose, done, fileList, entries, diskVars, diskErrs, callerVars>>
  /\ UNCHANGED relayFrame

\* entries.Delete() (DiskChain.Delete) in runReplicating
RpDelete(how) ==
  /\ ~panicked /\ lock = "free" /\ pc = "rp_delete"
  /\ how \in DiskOutcomes({"remove"})
  /\ IF how = "ok" /\ entries.suffix \in DOMAIN spool
     THEN /\ spool' = RemoveFile(spool, entries.suffix)
          /\ deleted' = Append(deleted, entries.suffix)
          /\ passDeleted' = Append(passDeleted, entries.suffix)
          /\ pc' = "rp_load"
          /\ UNCHANGED <<diskErr, closed, allowClose, dwFresh, diskErrs>>
     ELSE /\ diskErr' = TRUE
          /\ closed' = TRUE
          /\ GoConnectingFresh
          /\ diskErrs' = IF how = "ok" THEN diskErrs ELSE diskErrs + 1
          /\ UNCHANGED <<spool, deleted, passDeleted>>
  /\ UNCHANGED <<incoming, incomingTail, processCount, procVars, wIncoming, wTail,
                 remoteConnection, remoteConnectionErr, dial, wantClose, done,
                 fileList, entries, dwF, sizeRemaining, bwErr, netVars, callerVars>>
  /\ UNCHANGED relayFrame

\* ---------------------------------------- replicate.Writer: state CONNECTED

\* runConnected(remote): take the lock, wantClose := false
RunConnectedEnter ==
  /\ ~panicked /\ lock = "free" /\ pc = "cd_enter"
  /\ lock' = "worker"
  /\ wantClose' = FALSE
  /\ pc' = "cd_loop"
  /\ UNCHANGED <<sharedVars, panicked, allowClose, dwFresh, wIncoming, wTail,
                 remoteConnection, remoteConnectionErr, dial, done, fileList,
                 entries, diskVars, netVars, diskErrs, callerVars>>
  /\ UNCHANGED relayFrame

\* top of the loop of runConnected: wait for entries or close, detach the queue
CdLoop ==
  /\ ~panicked /\ lock = "worker" /\ pc = "cd_loop"
  /\ IF ~closed /\ incoming = <<>>
     THEN /\ pc' = "cd_wait"
          /\ lock' = "free"
          /\ UNCHANGED <<incoming, incomingTail, wIncoming, wTail>>
     ELSE /\ wIncoming' = incoming
          /\ wTail' = incomingTail
          /\ incoming' = <<>>
          /\ incomingTail' = Nil
          /\ IF incoming # <<>>
             THEN pc' = "cd_send" /\ lock' = "free"
             ELSE pc' = "cd_check" /\ lock' = "worker"
  /\ UNCHANGED <<closed, diskErr, processCount, panicked, allowClose, dwFresh,
                 remoteConnection, remoteConnectionErr, dial, wantClose, done,
                 fileList, entries, diskVars, netVars, diskErrs, callerVars>>
  /\ UNCHANGED relayFrame

\* w.cond.Wait() returns in runConnected
CdWake ==
  /\ ~panicked /\ lock = "free" /\ pc = "cd_wait"
  /\ closed \/ incoming # <<>>
  /\ lock' = "worker"
  /\ pc' = "cd_loop"
  /\ UNCHANGED <<sharedVars, panicked, allowClose, dwFresh, wIncoming, wTail,
                 remoteConnection, remoteConnectionErr, dial, wantClose, done,
                 fileList, entries, diskVars, netVars, diskErrs, callerVars>>
  /\ UNCHANGED relayFrame

\* variant: the failed chain is put behind what arrived during the send
Reinsert_Behind(chain, tail, queue) == queue \o SubSeq(chain, 1, PosOf(chain, tail))

\* runConnected, "re-insert chain into pending":
\* tail.Next = w.incoming; w.incoming = incoming
Reinsert(chain, tail, queue) == SubSeq(chain, 1, PosOf(chain, tail)) \o queue

\* remote.WriteChainTimeout(incoming) in runConnected; on failure the chain is
\* put back in front of the queue (tail.Next = w.incoming; w.incoming = incoming)
CdSend(how) ==
  /\ ~panicked /\ lock = "free" /\ pc = "cd_send"
  /\ how \in NetOutcomes({"lost", "acklost"})
  /\ LET r == WriteChainTimeout(wIncoming, how)
     IN /\ observed' = r.observed
        /\ lostAck' = r.lostAck
        /\ lastSend' = [Chain |-> wIncoming, err |-> r.err]
        /\ IF ~r.err
           THEN /\ pc' = "cd_check"
                /\ lock' = "worker"
                /\ UNCHANGED <<remoteConnection, netFails, incoming, panicked,
                               allowClose, dwFresh>>
           ELSE /\ remoteConnection' = FALSE
                /\ netFails' = netFails + 1
                /\ lock' = "free"
                /\ IF wTail = Nil \/ wTail \notin Range(wIncoming)
                   THEN /\ panicked' = (wTail = Nil)
                        /\ incoming' = wIncoming
                   ELSE /\ incoming' = Reinsert(wIncoming, wTail, incoming)
                        /\ UNCHANGED panicked
                /\ GoConnectingFresh
  /\ UNCHANGED <<closed, diskErr, incomingTail, processCount, wIncoming, wTail,
                 remoteConnectionErr, dial, wantClose, done, fileList, entries,
                 diskVars, diskErrs, callerVars>>
  /\ UNCHANGED relayFrame

\* "if wantClose" / "if w.closed" at the bottom of the loop
CdCheck ==
  /\ ~panicked /\ lock = "worker" /\ pc = "cd_check"
  /\ IF wantClose
     THEN /\ pc' = "cd_final"
          /\ lock' = "free"
          /\ UNCHANGED wantClose
     ELSE /\ wantClose' = closed
          /\ pc' = "cd_loop"
          /\ lock' = "worker"
  /\ UNCHANGED <<sharedVars, panicked, allowClose, dwFresh, wIncoming, wTail,
                 remoteConnection, remoteConnectionErr, dial, done, fileList,
                 entries, diskVars, netVars, diskErrs, callerVars>>
  /\ UNCHANGED relayFrame

\* outside the lock: remote.Close(); done := w.incoming == nil
CdFinal ==
  /\ ~panicked /\ pc = "cd_final"
  /\ remoteConnection' = FALSE
  /\ done' = (incoming = <<>>)
  /\ pc' = "cd_exit"
  /\ UNCHANGED <<sharedVars, procVars, allowClose, dwFresh, wIncoming, wTail,
                 remoteConnectionErr, dial, wantClose, fileList, entries,
                 diskVars, netVars, diskErrs, callerVars>>
  /\ UNCHANGED relayFrame

\* back under the lock: finish, or spool what arrived in the meantime
CdExit ==
  /\ ~panicked /\ lock = "free" /\ pc = "cd_exit"
  /\ IF done
     THEN /\ ProcessDone
          /\ pc' = "exited"
          /\ UNCHANGED <<allowClose, dwFresh>>
     ELSE /\ GoConnectingFresh
          /\ UNCHANGED <<processCount, panicked>>
  /\ UNCHANGED <<closed, diskErr, incoming, incomingTail, lock, wIncoming, wTail,
                 remoteConnection, remoteConnectionErr, dial, wantClose, done,
                 fileList, entries, diskVars, netVars, diskErrs, callerVars>>
  /\ UNCHANGED relayFrame

\* ------------------------------------------------------- the relay as a whole

\* NewWriter: an open writer, process.Add(1), go w.runConnecting(nil, false)
NewWriter ==
  /\ closed = FALSE /\ diskErr = FALSE
  /\ incoming = <<>> /\ incomingTail = Nil
  /\ processCount = 1
  /\ lock = "free" /\ panicked = FALSE
  /\ pc = "cg_enter" /\ allowClose = FALSE /\ dwFresh = TRUE
  /\ wIncoming = <<>> /\ wTail = Nil
  /\ remoteConnection = FALSE /\ remoteConnectionErr = FALSE
  /\ dial = "idle" /\ wantClose = FALSE /\ done = FALSE
  /\ fileList = {} /\ entries = [Chain |-> <<>>, suffix |-> NoFile]
  /\ dwF = NoFile /\ sizeRemaining = 0 /\ bwErr = FALSE
  /\ spool = [s \in {} |-> <<>>]
  /\ deleted = <<>> /\ passDeleted = <<>>
  /\ observed = <<>> /\ lostAck = {} /\ netFails = 0 /\ diskErrs = 0
  /\ lastSend = [Chain |-> <<>>, err |-> FALSE]
  /\ nextRec = 1 /\ accepted = {} /\ rejected = {}
  /\ lastWrite = [chain |-> <<>>, err |-> FALSE]
  /\ closeCalled = FALSE /\ closeReturned = FALSE /\ closeResult = FALSE
  /\ closeSeen = {}

Worker ==
  \/ RunConnectingEnter \/ CgLoop \/ CgWake
  \/ \E how \in {"ok", "open", "encode", "flush"} : CgWrite(how)
  \/ CgCheck \/ CgWgWait \/ CgConn
  \/ \E how \in {"ok", "close"} : CgDwClose(how)
  \/ RunReplicatingEnter
  \/ \E how \in {"ok", "load"} : RpLoad(how)
  \/ \E how \in {"ok", "lost", "acklost"} : RpSend(how)
  \/ \E how \in {"ok", "remove"} : RpDelete(how)
  \/ RunConnectedEnter \/ CdLoop \/ CdWake
  \/ \E how \in {"ok", "lost", "acklost"} : CdSend(how)
  \/ CdCheck \/ CdFinal \/ CdExit

Dialer == \E how \in {"ok", "fail"} : Dial(how)

\* ------------------------------------- a disk.Writer used by itself

\* no call made yet
DiskIdle ==
  dkLast = [chain |-> <<>>, how |-> "none", err |-> FALSE, flushed |-> FALSE,
            synced |-> FALSE, f |-> NoFile, rem |-> 0, sp |-> [s \in {} |-> <<>>]]

\* disk.Writer.WriteChain(chain) with a chain of n fresh records; dkLast keeps
\* the call: its chain, what the file system did, what it returned and the
\* writer and the directory it started from
DkWriteChain(n, how) ==
  /\ nextRec + n - 1 <= MaxRec + MaxDiskChain
  /\ how \in DiskOutcomes({"encode", "flush"} \cup (IF dwF = NoFile THEN {"open"} ELSE {}))
  /\ LET chain == [i \in 1..n |-> nextRec + i - 1]
         r == DiskWriteChain(chain, how, dwF, sizeRemaining, bwErr, spool)
     IN /\ dwF' = r.f
        /\ sizeRemaining' = r.rem
        /\ bwErr' = r.bw
        /\ spool' = r.sp
        /\ dkLast' = [chain |-> chain, how |-> how, err |-> r.err,
                      flushed |-> r.flushed, synced |-> r.synced,
                      f |-> dwF, rem |-> sizeRemaining, sp |-> spool]
  /\ nextRec' = nextRec + n
  /\ diskErrs' = IF how = "ok" THEN diskErrs ELSE diskErrs + 1
  /\ UNCHANGED <<sharedVars, procVars, taskVars, deleted, passDeleted, netVars,
                 accepted, rejected, lastWrite, closeCalled, closeReturned, closeResult>>
  /\ UNCHANGED <<relayFrameOther, closeSeen>>

\* disk.Writer.Close: the segment is closed, the next call opens a new one
DkClose ==
  /\ dwF # NoFile
  /\ dwF' = NoFile
  /\ UNCHANGED <<sharedVars, procVars, taskVars, sizeRemaining, bwErr, spool, deleted,
                 passDeleted, netVars, diskErrs, callerVars, dkLast>>
  /\ UNCHANGED <<relayFrameOther, closeSeen>>

\* DiskChain.Delete on the oldest segment, as the replication does after it
\* has sent it; the writer has no segment open then
DkDelete ==
  /\ dwF = NoFile /\ DOMAIN spool # {}
  /\ LET suffix == GetOldestFileSuffix(PopulateFileList(spool))
     IN /\ spool' = RemoveFile(spool, suffix)
        /\ deleted' = Append(deleted, suffix)
  /\ UNCHANGED <<sharedVars, procVars, taskVars, dwF, sizeRemaining, bwErr, passDeleted,
                 netVars, diskErrs, callerVars, dkLast>>
  /\ UNCHANGED <<relayFrameOther, closeSeen>>

DiskNext ==
  \/ \E n \in 1..MaxDiskChain, how \in {"ok", "open", "encode", "flush"} : DkWriteChain(n, how)
  \/ DkClose
  \/ DkDelete

\* ------------------------------------------------ the router's output chain

Categories == {"a", "b", "x"}

Processors == {1, 2, 3}

\* the patterns a rule may carry: "" marks the default rule, "(" does not
\* compile; the output types: "bogus" is not a known type
Patterns == {"", "a", "a|b", "("}

Types == {"stdout", "bogus"}

\* regexp.Compile(pattern): whether it compiles, and the categories the
\* compiled expression matches (Regexp.Match)
RegexpCompile(pattern) ==
  [err |-> pattern = "(",
   match |-> IF pattern = "a" THEN {"a"}
             ELSE IF pattern = "a|b" THEN {"a", "b"}
             ELSE {}]

\* the nil *regexp.Regexp
NoExpr == [nil |-> TRUE, match |-> {}]

\* a nil entry of an OutputChain, carrying the nil Processor
NilOutput == [Pattern |-> "", Type |-> "nil", expr |-> NoExpr, processor |-> Nil]

\* a ConfigOutput as ParseConfig leaves it
ParsedOutput(pattern, type) ==
  [Pattern |-> pattern, Type |-> type, expr |-> NoExpr, processor |-> Nil]

\* the loop of Config.Compile on the rule at index ii: the expression of a
\* non-empty pattern, and a new processor (named by the rule's index)
CompileOutput(out, ii) ==
  [Pattern |-> out.Pattern, Type |-> out.Type,
   expr |-> IF out.Pattern # ""
            THEN [nil |-> FALSE, match |-> RegexpCompile(out.Pattern).match]
            ELSE NoExpr,
   processor |-> ii]

\* Config.Compile on the configured outputs: an error for a pattern that does
\* not compile or an unknown type; otherwise the default rule (the last one
\* with an empty pattern) moves to index 0. Without a default rule the code
\* replaces config.Outputs by a new slice one longer and then copies from
\* that new slice into itself, so every entry is nil.
Compile(outputs) ==
  LET n == Len(outputs)
      bad == {i \in 1..n : \/ (outputs[i].Pattern # "" /\ RegexpCompile(outputs[i].Pattern).err)
                           \/ outputs[i].Type # "stdout"}
      defaults == {i \in 1..n : outputs[i].Pattern = ""}
      c == [i \in 1..n |-> CompileOutput(outputs[i], i)]
  IN IF bad # {} THEN [err |-> TRUE, Outputs |-> outputs]
     ELSE IF defaults = {}
     THEN [err |-> FALSE, Outputs |-> [i \in 1..(n + 1) |-> NilOutput]]
     ELSE LET defaultIndex == SetMax(defaults)
          IN [err |-> FALSE,
              Outputs |-> [i \in 1..n |-> IF i = 1 THEN c[defaultIndex]
                                          ELSE IF i <= defaultIndex THEN c[i - 1]
                                          ELSE c[i]]]

\* compiled chains of two configurations, with and without a default rule
OcDefault ==
  Compile(<<ParsedOutput("", "stdout"), ParsedOutput("a", "stdout"),
            ParsedOutput("a|b", "stdout")>>).Outputs

OcNoDefault ==
  Compile(<<ParsedOutput("a", "stdout"), ParsedOutput("a|b", "stdout")>>).Outputs

\* OutputChain.FindProcessor: the first entry of oc[1:] whose expression
\* matches, else the processor of oc[0] if that is not nil, else nil. It
\* panics on oc[1:] of an empty chain and on a nil entry or a nil expression
\* met before a match.
FindProcessor(oc, category) ==
  IF Len(oc) = 0 THEN [panic |-> TRUE, processor |-> Nil]
  ELSE LET stop == {i \in 2..Len(oc) : \/ oc[i] = NilOutput
                                       \/ oc[i].expr.nil
                                       \/ category \in oc[i].expr.match}
       IN IF stop # {}
          THEN LET i == SetMin(stop)
               IN IF oc[i] = NilOutput \/ oc[i].expr.nil
                  THEN [panic |-> TRUE, processor |-> Nil]
                  ELSE [panic |-> FALSE, processor |-> oc[i].processor]
          ELSE IF oc[1] # NilOutput
          THEN [panic |-> FALSE, processor |-> oc[1].processor]
          ELSE [panic |-> FALSE, processor |-> Nil]

\* variant: the chain is not cut where the processor changes
SplitForProcessor_WholeChain(oc, chain) ==
  IF chain = <<>>
  THEN [panic |-> FALSE, processor |-> Nil, head |-> <<>>, remaining |-> <<>>]
  ELSE LET first == FindProcessor(oc, chain[1].Category)
       IN [panic |-> first.panic, processor |-> first.processor,
           head |-> chain, remaining |-> <<>>]

\* OutputChain.SplitForProcessor: the processor of the head record, the run of
\* records up to the first one that maps to another processor, and the rest
SplitForProcessor(oc, chain) ==
  IF chain = <<>>
  THEN [panic |-> FALSE, processor |-> Nil, head |-> <<>>, remaining |-> <<>>]
  ELSE LET first == FindProcessor(oc, chain[1].Category)
           cut == {i \in 2..Len(chain) :
                     \/ FindProcessor(oc, chain[i].Category).panic
                     \/ FindProcessor(oc, chain[i].Category).processor # first.processor}
           k == IF cut = {} THEN Len(chain) + 1 ELSE SetMin(cut)
       IN [panic |-> first.panic \/ (cut # {} /\ FindProcessor(oc, chain[k].Category).panic),
           processor |-> first.processor,
           head |-> SubSeq(chain, 1, k - 1),
           remaining |-> SubSeq(chain, k, Len(chain))]

\* variant: the error of the processor's WriteChain is dropped
processChain_IgnoreErr(oc, chain, out, writeErr) ==
  LET sp == SplitForProcessor(oc, chain)
  IN IF sp.panic
     THEN [panic |-> TRUE, err |-> FALSE, out |-> out, chain |-> chain]
     ELSE [panic |-> FALSE, err |-> FALSE,
           out |-> IF sp.processor # Nil /\ ~writeErr
                   THEN [out EXCEPT ![sp.processor] = @ \o sp.head]
                   ELSE out,
           chain |-> sp.remaining]

\* one iteration of the loop of InputManager.processChain: hand the head run to
\* its processor (writeErr: that WriteChain fails), go on with the remainder
processChain(oc, chain, out, writeErr) ==
  LET sp == SplitForProcessor(oc, chain)
  IN IF sp.panic
     THEN [panic |-> TRUE, err |-> FALSE, out |-> out, chain |-> chain]
     ELSE IF sp.processor # Nil /\ writeErr
     THEN [panic |-> FALSE, err |-> TRUE, out |-> out, chain |-> chain]
     ELSE [panic |-> FALSE, err |-> FALSE,
           out |-> IF sp.processor # Nil
                   THEN [out EXCEPT ![sp.processor] = @ \o sp.head]
                   ELSE out,
           chain |-> sp.remaining]

\* ------------------------------------------- loading a configuration

\* the configurations ParseConfig may return
Configs ==
  UNION {[1..n -> {ParsedOutput(pt, ty) : pt \in Patterns, ty \in Types}] : n \in 0..MaxRules}

\* no configuration being looked at
RouterIdle ==
  /\ rtRules = <<>> /\ rtOutputs = <<>> /\ rtState = "idle"
  /\ rtFound = [done |-> FALSE, category |-> "", panic |-> FALSE, processor |-> Nil]

\* ParseConfig has returned some configuration
RouterParsed ==
  /\ rtRules \in Configs /\ rtOutputs = rtRules /\ rtState = "parsed"
  /\ rtFound = [done |-> FALSE, category |-> "", panic |-> FALSE, processor |-> Nil]

\* loadConfig: config.Compile()
LoadConfigCompile ==
  /\ rtState = "parsed"
  /\ LET r == Compile(rtRules)
     IN /\ rtOutputs' = r.Outputs
        /\ rtState' = IF r.err THEN "error" ELSE "compiled"
  /\ UNCHANGED <<rtRules, rtFound>>
  /\ UNCHANGED routerFrame

\* config.Outputs.FindProcessor(category) on the compiled chain
RouterFind(category) ==
  /\ rtState = "compiled"
  /\ ~rtFound.done
  /\ LET r == FindProcessor(rtOutputs, category)
     IN rtFound' = [done |-> TRUE, category |-> category,
                    panic |-> r.panic, processor |-> r.processor]
  /\ UNCHANGED <<rtRules, rtOutputs, rtState>>
  /\ UNCHANGED routerFrame

RouterNext ==
  \/ LoadConfigCompile
  \/ \E category \in Categories : RouterFind(category)

\* ------------------------------------------- Input.serve on one connection

\* serve returns: nr.Close() and conn.Close() run as deferred calls
ServeReturn ==
  /\ svPc' = "closed"
  /\ connOpen' = FALSE

\* the messages of the wire protocol: commands, and the two four-byte words
\* of a CONNECT / CONNECT_ACK message
CmdConnect == "CONNECT"

CmdConnectAck == "CONNECT_ACK"

CmdChain == "CHAIN"

CmdChainAck == "CHAIN_ACK"

Magic == "MAGIC"

Version == "VERSION"

\* the 9-byte messages a peer may send, and "nothing received"
Hellos == [cmd : {CmdConnect, CmdConnectAck, CmdChain},
           magic : {Magic, "other"}, version : {Version, "other"}]

NoHello == [cmd |-> "none", magic |-> "none", version |-> "none"]

\* the 5-byte replies a peer may send to a CHAIN frame
Replies == [cmd : {CmdChainAck, CmdChain}, count : 0..MaxFrameLen]

NoReply == [cmd |-> "none", count |-> 0]

\* variant: the version word is not compared
NewConnReader_NoVersion(how, hello) ==
  IF how = "recv" THEN [session |-> FALSE, hello |-> NoHello, ackSent |-> FALSE]
  ELSE IF hello.cmd # CmdConnect \/ hello.magic # Magic
  THEN [session |-> FALSE, hello |-> hello, ackSent |-> FALSE]
  ELSE IF how = "send" THEN [session |-> FALSE, hello |-> hello, ackSent |-> FALSE]
  ELSE [session |-> TRUE, hello |-> hello, ackSent |-> TRUE]

\* pnet.NewConnReader: read 9 bytes, compare command, magic and version,
\* answer CONNECT_ACK. how: "recv" the read fails, "send" the answer cannot
\* be written, "ok" no I/O error
NewConnReader(how, hello) ==
  IF how = "recv" THEN [session |-> FALSE, hello |-> NoHello, ackSent |-> FALSE]
  ELSE IF hello.cmd # CmdConnect \/ hello.magic # Magic \/ hello.version # Version
  THEN [session |-> FALSE, hello |-> hello, ackSent |-> FALSE]
  ELSE IF how = "send" THEN [session |-> FALSE, hello |-> hello, ackSent |-> FALSE]
  ELSE [session |-> TRUE, hello |-> hello, ackSent |-> TRUE]

\* serve up to its loop: the handshake; without a session serve returns
SvHandshake(how, hello) ==
  /\ svPc = "handshake"
  /\ LET r == NewConnReader(how, hello)
     IN /\ svHello' = r.hello
        /\ svAckSent' = r.ackSent
        /\ IF r.session THEN svPc' = "read" /\ UNCHANGED connOpen ELSE ServeReturn
  /\ UNCHANGED <<svOc, svChain, svFrame, svFrameNo, lastReadCount, svProcResult,
                 svOut, svAcks, svNextId>>
  /\ UNCHANGED serveFrame

\* nr.Read returns a chain of Len(cats) records (nil for a count of 0)
SvRead(cats) ==
  /\ svPc = "read"
  /\ svFrameNo < MaxFrames
  /\ LET chain == [i \in 1..Len(cats) |-> [id |-> svNextId + i - 1, Category |-> cats[i]]]
     IN /\ svFrame' = chain
        /\ svChain' = chain
        /\ svNextId' = svNextId + Len(cats)
        /\ lastReadCount' = Len(cats)
        /\ svFrameNo' = svFrameNo + 1
        /\ svProcResult' = "none"
        /\ svPc' = IF chain # <<>> THEN "dispatch" ELSE "read"
  /\ UNCHANGED <<svOc, svOut, svAcks, connOpen>>
  /\ UNCHANGED <<hsVars, serveFrame>>

\* nr.Read returns io.EOF or another error: serve returns
SvReadFail ==
  /\ svPc = "read"
  /\ ServeReturn
  /\ UNCHANGED <<svOc, svChain, svFrame, svFrameNo, lastReadCount, svProcResult,
                 svOut, svAcks, svNextId>>
  /\ UNCHANGED <<hsVars, serveFrame>>

\* im.processChain(chain), one run of records per step; a panic in
\* FindProcessor ends the process
SvDispatch(writeErr) ==
  /\ svPc = "dispatch"
  /\ LET r == processChain(svOc, svChain, svOut, writeErr)
     IN /\ svOut' = r.out
        /\ svChain' = r.chain
        /\ IF r.panic
           THEN /\ svProcResult' = "panic"
                /\ svPc' = "panic"
                /\ connOpen' = FALSE
           ELSE IF r.err
           THEN /\ svProcResult' = "err"
                /\ ServeReturn
           ELSE IF r.chain = <<>>
           THEN /\ svProcResult' = "ok"
                /\ svPc' = "ack"
                /\ UNCHANGED connOpen
           ELSE UNCHANGED <<svProcResult, svPc, connOpen>>
  /\ UNCHANGED <<svOc, svFrame, svFrameNo, lastReadCount, svAcks, svNextId>>
  /\ UNCHANGED <<hsVars, serveFrame>>

\* nr.AcknowledgeLast: CHAIN_ACK with the count of the last read
SvAck(ok) ==
  /\ svPc = "ack"
  /\ IF ok
     THEN /\ svAcks' = Append(svAcks, [frame |-> svFrameNo, count |-> lastReadCount])
          /\ svPc' = "read"
          /\ UNCHANGED connOpen
     ELSE /\ ServeReturn
          /\ UNCHANGED svAcks
  /\ UNCHANGED <<svOc, svChain, svFrame, svFrameNo, lastReadCount, svProcResult,
                 svOut, svNextId>>
  /\ UNCHANGED <<hsVars, serveFrame>>

\* ------------------------- main, InputManager and one Input (one address)

Conns == 1..MaxConn

\* chains are numbered in the order their configurations are created; a
\* chain is "full" (compiled from a configuration file, with a default rule)
\* or "empty" (the Outputs of new(Config)). closes counts the calls of
\* OutputChain.Close on it, refs is RefOutputChain.wg, released is set once
\* Reconfigure's wait for refs has completed.
NewChain(kind) == [kind |-> kind, closes |-> 0, refs |-> 0, released |-> FALSE]

\* main has loaded the configuration and im.Run's first Reconfigure has
\* returned: the input is listening, no connection yet
MainStarted ==
  /\ mConfig = 1 /\ mChains = <<NewChain("full")>> /\ imCurrent = 1
  /\ hPc = "idle" /\ hOld = Nil /\ hToClose = {} /\ mSignals = 0
  /\ mLastLoad = "ok" /\ mPanicked = FALSE /\ mExited = FALSE
  /\ inListening = TRUE /\ inClosing = FALSE /\ inRun = "accepting"
  /\ inConnections = {}
  /\ cPc = [c \in Conns |-> "none"] /\ cOpen = [c \in Conns |-> FALSE]
  /\ cChain = [c \in Conns |-> Nil] /\ cSeen = [c \in Conns |-> {}]
  /\ cEnd = [c \in Conns |-> ""]

\* the router process is not looked at
MainIdle ==
  /\ mConfig = Nil /\ mChains = <<>> /\ imCurrent = Nil
  /\ hPc = "idle" /\ hOld = Nil /\ hToClose = {} /\ mSignals = 0
  /\ mLastLoad = "ok" /\ mPanicked = FALSE /\ mExited = TRUE
  /\ inListening = FALSE /\ inClosing = FALSE /\ inRun = "returned"
  /\ inConnections = {}
  /\ cPc = [c \in Conns |-> "none"] /\ cOpen = [c \in Conns |-> FALSE]
  /\ cChain = [c \in Conns |-> Nil] /\ cSeen = [c \in Conns |-> {}]
  /\ cEnd = [c \in Conns |-> ""]

MainRunning == ~mPanicked /\ ~mExited

\* config.Outputs.Close() in a signal handler: Close is called on every
\* processor of the chain config points to
OutputsClose(chains, g) == [chains EXCEPT ![g].closes = @ + 1]

\* the SIGHUP handler up to loadConfig: lock, config.Outputs.Close(),
\* config = nil. config is nil after a failed reload: nil dereference.
\* (Reloads are followed up to the first SIGTERM, after which main is on its
\* way out.)
SigHup ==
  /\ MainRunning /\ hPc = "idle" /\ mSignals < MaxSignals
  /\ ~inClosing
  /\ mSignals' = mSignals + 1
  /\ IF mConfig = Nil
     THEN /\ mPanicked' = TRUE
          /\ UNCHANGED <<mConfig, mChains, hPc>>
     ELSE /\ mChains' = OutputsClose(mChains, mConfig)
          /\ mConfig' = Nil
          /\ hPc' = "hup_load"
          /\ UNCHANGED mPanicked
  /\ UNCHANGED <<hOld, hToClose, mLastLoad, mExited, imCurrent, inputVars, connVars>>
  /\ UNCHANGED mainFrame

\* the SIGHUP handler: loadConfig; on an error it is logged, config stays nil
\* and the lock is released; otherwise Reconfigure(config) starts
HupLoadConfig(ok) ==
  /\ MainRunning /\ hPc = "hup_load"
  /\ IF ok
     THEN /\ mChains' = Append(mChains, NewChain("full"))
          /\ mConfig' = Len(mChains) + 1
          /\ mLastLoad' = "ok"
          /\ hPc' = "rc_swap"
     ELSE /\ mLastLoad' = "failed"
          /\ hPc' = "idle"
          /\ UNCHANGED <<mChains, mConfig>>
  /\ UNCHANGED <<hOld, hToClose, mSignals, mExited, mPanicked, imCurrent, inputVars, connVars>>
  /\ UNCHANGED mainFrame

\* the SIGTERM handler up to Reconfigure: lock, config.Outputs.Close(),
\* config = new(Config)
SigTerm ==
  /\ MainRunning /\ hPc = "idle" /\ mSignals < MaxSignals
  /\ mSignals' = mSignals + 1
  /\ IF mConfig = Nil
     THEN /\ mPanicked' = TRUE
          /\ UNCHANGED <<mConfig, mChains, hPc>>
     ELSE /\ mChains' = Append(OutputsClose(mChains, mConfig), NewChain("empty"))
          /\ mConfig' = Len(mChains) + 1
          /\ hPc' = "rc_swap"
          /\ UNCHANGED mPanicked
  /\ UNCHANGED <<hOld, hToClose, mLastLoad, mExited, imCurrent, inputVars, connVars>>
  /\ UNCHANGED mainFrame

\* Reconfigure: replace the output chain under currentChainLock. A
\* configuration without the input's address closes the input: closing is
\* set and input.close() closes the listener
ReconfigureSwap ==
  /\ MainRunning /\ hPc = "rc_swap"
  /\ hOld' = imCurrent
  /\ imCurrent' = mConfig
  /\ IF mChains[mConfig].kind = "empty" /\ ~inClosing
     THEN /\ inClosing' = TRUE
          /\ inListening' = FALSE
          /\ hPc' = "rc_lwait"
     ELSE /\ hPc' = "rc_wait"
          /\ UNCHANGED <<inClosing, inListening>>
  /\ UNCHANGED <<mConfig, mChains, hToClose, mSignals, mLastLoad, mExited, mPanicked,
                 inRun, inConnections, connVars>>
  /\ UNCHANGED mainFrame

\* Input.run: Accept fails on the closed listener; with closing set run returns
InputRunReturn ==
  /\ MainRunning /\ inRun = "accepting" /\ ~inListening
  /\ inRun' = "returned"
  /\ UNCHANGED <<handlerVars, mChains, mPanicked, imCurrent, inListening, inClosing,
                 inConnections, connVars>>
  /\ UNCHANGED mainFrame

\* Input.close after lwait.Wait(): take the connection map, leave nil
InputCloseTake ==
  /\ MainRunning /\ hPc = "rc_lwait" /\ inRun = "returned"
  /\ hToClose' = inConnections
  /\ inConnections' = {}
  /\ hPc' = "rc_conns"
  /\ UNCHANGED <<mConfig, hOld, mSignals, mLastLoad, mExited, mChains, mPanicked,
                 imCurrent, inListening, inClosing, inRun, connVars>>
  /\ UNCHANGED mainFrame

\* variant: the connection is closed without taking its mutex
InputCloseConn_NoLock(c) ==
  /\ MainRunning /\ hPc = "rc_conns" /\ c \in hToClose
  /\ cOpen' = [cOpen EXCEPT ![c] = FALSE]
  /\ hToClose' = hToClose \ {c}
  /\ UNCHANGED <<mConfig, hPc, hOld, mSignals, mLastLoad, mExited, mChains, mPanicked,
                 imCurrent, inputVars, cPc, cChain, cSeen, cEnd>>
  /\ UNCHANGED mainFrame

\* Input.close: lock.Lock(); conn.Close(); lock.Unlock() for one connection of
\* the map. serve holds that lock from its first statement on, except while
\* it is in nr.Read: the lock is free before serve has started ("handshake"),
\* during the Read ("read") and when the Read has returned and serve has not
\* yet locked again ("acquire").
InputCloseConn(c) ==
  /\ MainRunning /\ hPc = "rc_conns" /\ c \in hToClose
  /\ cPc[c] \in {"handshake", "read", "acquire", "closed"}
  /\ cOpen' = [cOpen EXCEPT ![c] = FALSE]
  /\ hToClose' = hToClose \ {c}
  /\ UNCHANGED <<mConfig, hPc, hOld, mSignals, mLastLoad, mExited, mChains, mPanicked,
                 imCurrent, inputVars, cPc, cChain, cSeen, cEnd>>
  /\ UNCHANGED mainFrame

\* Input.close returns, Reconfigure goes on to the old chain
InputCloseReturn ==
  /\ MainRunning /\ hPc = "rc_conns" /\ hToClose = {}
  /\ hPc' = "rc_wait"
  /\ UNCHANGED <<mConfig, hOld, hToClose, mSignals, mLastLoad, mExited, mChains,
                 mPanicked, imCurrent, inputVars, connVars>>
  /\ UNCHANGED mainFrame

\* variant: the old chain is closed without waiting for its holders
RefWait_NoWait(chains, g) == TRUE

\* oldchain.wg.Wait() returns
RefWait(chains, g) == chains[g].refs = 0

\* Reconfigure: oldchain.wg.Wait(); oldchain.Chain.Close(); the handler
\* releases its lock
ReconfigureWait ==
  /\ MainRunning /\ hPc = "rc_wait"
  /\ RefWait(mChains, hOld)
  /\ mChains' = [OutputsClose(mChains, hOld) EXCEPT ![hOld].released = TRUE]
  /\ hPc' = "idle"
  /\ hOld' = Nil
  /\ UNCHANGED <<mConfig, hToClose, mSignals, mLastLoad, mExited, mPanicked, imCurrent,
                 inputVars, connVars>>
  /\ UNCHANGED mainFrame

\* im.Run after im.wg.Wait(): every input and serve goroutine is gone; the
\* current chain is waited for and closed, main takes the handlers' lock,
\* calls config.Outputs.Close() and returns
RunReturn ==
  /\ MainRunning /\ hPc = "idle" /\ inRun = "returned"
  /\ \A c \in Conns : cPc[c] \in {"none", "closed"}
  /\ mChains[imCurrent].refs = 0
  /\ IF mConfig = Nil
     THEN /\ mPanicked' = TRUE
          /\ mChains' = OutputsClose(mChains, imCurrent)
          /\ UNCHANGED mExited
     ELSE /\ mChains' = OutputsClose(OutputsClose(mChains, imCurrent), mConfig)
          /\ mExited' = TRUE
          /\ UNCHANGED mPanicked
  /\ UNCHANGED <<mConfig, hPc, hOld, hToClose, mSignals, mLastLoad, imCurrent,
                 inputVars, connVars>>
  /\ UNCHANGED mainFrame

\* Input.run: Accept returns a connection; it is put into the map and
\* go serve(conn) is started
InputAccept(c) ==
  /\ MainRunning /\ inRun = "accepting" /\ inListening
  /\ cPc[c] = "none" /\ \A d \in Conns : d < c => cPc[d] # "none"
  /\ cPc' = [cPc EXCEPT ![c] = "handshake"]
  /\ cOpen' = [cOpen EXCEPT ![c] = TRUE]
  /\ cSeen' = [cSeen EXCEPT ![c] = {d \in Conns : cPc[d] = "closed"}]
  /\ inConnections' = inConnections \cup {c}
  /\ UNCHANGED <<handlerVars, mChains, mPanicked, imCurrent, inListening, inClosing,
                 inRun, cChain, cEnd>>
  /\ UNCHANGED mainFrame

\* variant: the end of one serve call takes the listener down
ServeDone_StopListening(c, why) ==
  /\ cPc' = [cPc EXCEPT ![c] = "closed"]
  /\ cEnd' = [cEnd EXCEPT ![c] = why]
  /\ cOpen' = [cOpen EXCEPT ![c] = FALSE]
  /\ inConnections' = inConnections \ {c}
  /\ inListening' = FALSE

\* serve has returned: the deferred function of the goroutine Input.run
\* started removes the connection from the map and closes it. why: the call
\* of serve that failed ("eof": the peer closed the connection)
ServeDone(c, why) ==
  /\ cPc' = [cPc EXCEPT ![c] = "closed"]
  /\ cEnd' = [cEnd EXCEPT ![c] = why]
  /\ cOpen' = [cOpen EXCEPT ![c] = FALSE]
  /\ inConnections' = inConnections \ {c}
  /\ UNCHANGED inListening

\* serve: pnet.NewConnReader; without a session serve returns
ConnHandshake(c, ok) ==
  /\ MainRunning /\ cPc[c] = "handshake"
  /\ IF ok /\ cOpen[c]
     THEN /\ cPc' = [cPc EXCEPT ![c] = "read"]
          /\ UNCHANGED <<cOpen, inConnections, inListening, cEnd>>
     ELSE ServeDone(c, "handshake")
  /\ UNCHANGED <<handlerVars, mChains, mPanicked, imCurrent, inClosing, inRun,
                 cChain, cSeen>>
  /\ UNCHANGED mainFrame

\* serve: nr.Read. how: "chain" a frame with records, "empty" a frame of count
\* 0, "eof" the peer closed, "err" a framing, decode or I/O error (the only
\* outcome once the connection has been closed)
ConnRead(c, how) ==
  /\ MainRunning /\ cPc[c] = "read"
  /\ ~cOpen[c] => how = "err"
  /\ IF how = "chain"
     THEN /\ cPc' = [cPc EXCEPT ![c] = "acquire"]
          /\ UNCHANGED <<cOpen, inConnections, inListening, cEnd>>
     ELSE IF how = "empty"
     THEN UNCHANGED <<cPc, cOpen, inConnections, inListening, cEnd>>
     ELSE ServeDone(c, IF how = "eof" THEN "eof" ELSE "read")
  /\ UNCHANGED <<handlerVars, mChains, mPanicked, imCurrent, inClosing, inRun,
                 cChain, cSeen>>
  /\ UNCHANGED mainFrame

\* processChain: out := im.AcquireOutputs(), the current chain with its
\* counter incremented, under the read lock
AcquireOutputs(c) ==
  /\ MainRunning /\ cPc[c] = "acquire"
  /\ cChain' = [cChain EXCEPT ![c] = imCurrent]
  /\ mChains' = [mChains EXCEPT ![imCurrent].refs = @ + 1]
  /\ cPc' = [cPc EXCEPT ![c] = "route"]
  /\ UNCHANGED <<handlerVars, mPanicked, imCurrent, inputVars, cOpen, cSeen, cEnd>>
  /\ UNCHANGED mainFrame

\* processChain: SplitForProcessor on the acquired chain (FindProcessor
\* panics on the empty chain of new(Config)), then p.WriteChain begins
ConnWriteChain(c) ==
  /\ MainRunning /\ cPc[c] = "route"
  /\ IF mChains[cChain[c]].kind = "empty"
     THEN /\ mPanicked' = TRUE
          /\ UNCHANGED cPc
     ELSE /\ cPc' = [cPc EXCEPT ![c] = "write"]
          /\ UNCHANGED mPanicked
  /\ UNCHANGED <<handlerVars, mChains, imCurrent, inputVars, cOpen, cChain, cSeen, cEnd>>
  /\ UNCHANGED mainFrame

\* p.WriteChain returns and processChain with it (out.Release() is deferred);
\* on an error serve returns, otherwise the acknowledgement is next
ConnWriteDone(c, ok) ==
  /\ MainRunning /\ cPc[c] = "write"
  /\ mChains' = [mChains EXCEPT ![cChain[c]].refs = @ - 1]
  /\ cChain' = [cChain EXCEPT ![c] = Nil]
  /\ IF ok
     THEN /\ cPc' = [cPc EXCEPT ![c] = "ack"]
          /\ UNCHANGED <<cOpen, inConnections, inListening, cEnd>>
     ELSE ServeDone(c, "write")
  /\ UNCHANGED <<handlerVars, mPanicked, imCurrent, inClosing, inRun, cSeen>>
  /\ UNCHANGED mainFrame

\* serve: nr.AcknowledgeLast
ConnAck(c, ok) ==
  /\ MainRunning /\ cPc[c] = "ack"
  /\ IF ok /\ cOpen[c]
     THEN /\ cPc' = [cPc EXCEPT ![c] = "read"]
          /\ UNCHANGED <<cOpen, inConnections, inListening, cEnd>>
     ELSE ServeDone(c, "ack")
  /\ UNCHANGED <<handlerVars, mChains, mPanicked, imCurrent, inClosing, inRun,
                 cChain, cSeen>>
  /\ UNCHANGED mainFrame

MainNext ==
  \/ SigHup
  \/ \E ok \in BOOLEAN : HupLoadConfig(ok)
  \/ SigTerm
  \/ ReconfigureSwap
  \/ InputRunReturn
  \/ InputCloseTake
  \/ \E c \in Conns : InputCloseConn(c)
  \/ InputCloseReturn
  \/ ReconfigureWait
  \/ RunReturn
  \/ \E c \in Conns : InputAccept(c)
  \/ \E c \in Conns, ok \in BOOLEAN : ConnHandshake(c, ok)
  \/ \E c \in Conns, how \in {"chain", "empty", "eof", "err"} : ConnRead(c, how)
  \/ \E c \in Conns : AcquireOutputs(c)
  \/ \E c \in Conns : ConnWriteChain(c)
  \/ \E c \in Conns, ok \in BOOLEAN : ConnWriteDone(c, ok)
  \/ \E c \in Conns, ok \in BOOLEAN : ConnAck(c, ok)

\* ------------------------------------------------ SafeDailyFile (file.go)

Procs == 1..MaxProc

\* the local day a clock value falls into, and the first instant of a day
Day(t) == t \div TicksPerDay

Midnight(d) == d * TicksPerDay

\* NewSafeDailyFile: no writer, nextRotation the zero time, before every
\* value of the clock
DailyStarted ==
  /\ sdfLock = FALSE /\ nextRotation = 0 /\ sdfWg = 0 /\ sdfWriter = Nil
  /\ dNow = 1 /\ dFiles = <<>> /\ dPanicked = FALSE
  /\ gPc = [p \in Procs |-> "idle"] /\ gNow = [p \in Procs |-> 0]
  /\ gHandle = [p \in Procs |-> Nil]
  /\ clPc = "idle" /\ clW = Nil

\* no daily sink is looked at
DailyIdle ==
  /\ sdfLock = FALSE /\ nextRotation = 0 /\ sdfWg = 0 /\ sdfWriter = Nil
  /\ dNow = 0 /\ dFiles = <<>> /\ dPanicked = FALSE
  /\ gPc = [p \in Procs |-> "idle"] /\ gNow = [p \in Procs |-> 0]
  /\ gHandle = [p \in Procs |-> Nil]
  /\ clPc = "idle" /\ clW = Nil

\* the clock advances
Tick ==
  /\ ~dPanicked /\ dNow < MaxTime
  /\ dNow' = dNow + 1
  /\ UNCHANGED <<sdfVars, dFiles, dPanicked, getterVars, closerVars>>
  /\ UNCHANGED dailyFrame

\* f.Close() on a file of the sink (Nil: no file)
FileClose(files, f) == IF f = Nil THEN files ELSE [files EXCEPT ![f].open = FALSE]

\* sdf.wg.Wait() returns
WgWait(n) == n = 0

\* GetWriter: now := time.Now(), taken before the lock
GetWriterNow(p) ==
  /\ ~dPanicked /\ gPc[p] = "idle"
  /\ gNow' = [gNow EXCEPT ![p] = dNow]
  /\ gPc' = [gPc EXCEPT ![p] = "now"]
  /\ UNCHANGED <<sdfVars, dNow, dFiles, dPanicked, gHandle, closerVars>>
  /\ UNCHANGED dailyFrame

\* GetWriter: sdf.lock.Lock(). When now is after nextRotation, nextRotation
\* becomes the next midnight and the rotation follows; otherwise wg.Add(1)
\* and sdf.writer is returned, whatever it is
GetWriterLock(p) ==
  /\ ~dPanicked /\ gPc[p] = "now" /\ ~sdfLock
  /\ IF gNow[p] > nextRotation
     THEN /\ nextRotation' = Midnight(Day(gNow[p]) + 1)
          /\ sdfLock' = TRUE
          /\ gPc' = [gPc EXCEPT ![p] = "rotate"]
          /\ UNCHANGED <<sdfWg, gHandle>>
     ELSE /\ sdfWg' = sdfWg + 1
          /\ gHandle' = [gHandle EXCEPT ![p] = sdfWriter]
          /\ gPc' = [gPc EXCEPT ![p] = "holding"]
          /\ UNCHANGED <<nextRotation, sdfLock>>
  /\ UNCHANGED <<sdfWriter, dNow, dFiles, dPanicked, gNow, closerVars>>
  /\ UNCHANGED dailyFrame

\* GetWriter, the rotation under the lock: sdf.wg.Wait(), close the old file,
\* create the directory and open the file named for the date of now. how:
\* "mkdir", "open" the call that fails (GetWriter returns the error, writer
\* is left as it was), "ok" none
GetWriterRotate(p, how) ==
  /\ ~dPanicked /\ gPc[p] = "rotate"
  /\ WgWait(sdfWg)
  /\ sdfLock' = FALSE
  /\ IF how = "ok"
     THEN /\ dFiles' = Append(FileClose(dFiles, sdfWriter),
                              [day |-> Day(gNow[p]), open |-> TRUE, wrote |-> {}])
          /\ sdfWriter' = Len(dFiles) + 1
          /\ sdfWg' = sdfWg + 1
          /\ gHandle' = [gHandle EXCEPT ![p] = Len(dFiles) + 1]
          /\ gPc' = [gPc EXCEPT ![p] = "holding"]
     ELSE /\ dFiles' = FileClose(dFiles, sdfWriter)
          /\ gPc' = [gPc EXCEPT ![p] = "idle"]
          /\ UNCHANGED <<sdfWriter, sdfWg, gHandle>>
  /\ UNCHANGED <<nextRotation, dNow, dPanicked, gNow, closerVars>>
  /\ UNCHANGED dailyFrame

\* writeToSDF: formatter.Format(w, ...) and w.Flush() on the handle: the
\* record lands in the file if it is open; a nil handle is dereferenced
HandleWrite(p) ==
  /\ ~dPanicked /\ gPc[p] = "holding"
  /\ IF gHandle[p] = Nil
     THEN /\ dPanicked' = TRUE
          /\ UNCHANGED dFiles
     ELSE /\ dFiles' = IF dFiles[gHandle[p]].open
                       THEN [dFiles EXCEPT ![gHandle[p]].wrote = @ \cup {Day(dNow)}]
                       ELSE dFiles
          /\ UNCHANGED dPanicked
  /\ UNCHANGED <<sdfVars, dNow, getterVars, closerVars>>
  /\ UNCHANGED dailyFrame

\* SafeDailyFileWriter.Release
Release(p) ==
  /\ ~dPanicked /\ gPc[p] = "holding" /\ gHandle[p] # Nil
  /\ sdfWg' = sdfWg - 1
  /\ gHandle' = [gHandle EXCEPT ![p] = Nil]
  /\ gPc' = [gPc EXCEPT ![p] = "idle"]
  /\ UNCHANGED <<sdfLock, nextRotation, sdfWriter, dNow, dFiles, dPanicked, gNow,
                 closerVars>>
  /\ UNCHANGED dailyFrame

\* SafeDailyFile.Close: sdf.lock.Lock(); w := sdf.writer; with no writer it
\* unlocks and returns nil
SdfCloseLock ==
  /\ ~dPanicked /\ clPc = "idle" /\ ~sdfLock
  /\ clW' = sdfWriter
  /\ IF sdfWriter # Nil
     THEN sdfLock' = TRUE /\ clPc' = "wait"
     ELSE UNCHANGED <<sdfLock, clPc>>
  /\ UNCHANGED <<nextRotation, sdfWg, sdfWriter, dNow, dFiles, dPanicked, getterVars>>
  /\ UNCHANGED dailyFrame

\* SafeDailyFile.Close: sdf.wg.Wait(); sdf.writer = nil; sdf.lock.Unlock()
SdfCloseWait ==
  /\ ~dPanicked /\ clPc = "wait"
  /\ WgWait(sdfWg)
  /\ sdfWriter' = Nil
  /\ sdfLock' = FALSE
  /\ clPc' = "flush"
  /\ UNCHANGED <<nextRotation, sdfWg, dNow, dFiles, dPanicked, getterVars, clW>>
  /\ UNCHANGED dailyFrame

\* SafeDailyFile.Close, after the lock: w.Flush(); w.f.Close()
SdfCloseFile ==
  /\ ~dPanicked /\ clPc = "flush"
  /\ dFiles' = FileClose(dFiles, clW)
  /\ clPc' = "idle"
  /\ clW' = Nil
  /\ UNCHANGED <<sdfVars, dNow, dPanicked, getterVars>>
  /\ UNCHANGED dailyFrame

DailyNext ==
  \/ Tick
  \/ \E p \in Procs : GetWriterNow(p)
  \/ \E p \in Procs : GetWriterLock(p)
  \/ \E p \in Procs, how \in {"ok", "mkdir", "open"} : GetWriterRotate(p, how)
  \/ \E p \in Procs : HandleWrite(p)
  \/ \E p \in Procs : Release(p)
  \/ SdfCloseLock
  \/ SdfCloseWait
  \/ SdfCloseFile

\* ------------------------------------------ FileProcessor (fileprocessor.go)

\* the chains handed to FileProcessor.WriteChain, as the categories of their
\* records
FpChains == UNION {[1..n -> {"a", "b"}] : n \in 1..MaxFrameLen}

\* splitChainAtCategory: the number of leading records that stay in the chain,
\* up to the first record whose category differs from its predecessor's
splitChainAtCategory(chain) ==
  LET cut == {i \in 2..Len(chain) : chain[i] # chain[i - 1]}
  IN IF cut = {} THEN Len(chain) ELSE SetMin(cut) - 1

\* NewFileProcessor with a ${category} path: an empty map, nobody inside
FpStarted ==
  /\ fpLocked = FALSE /\ fpFiles = {} /\ fpClosed = FALSE /\ fpWg = 0
  /\ fpSinks = [t \in {"a", "b"} |-> "none"]
  /\ fwPc = [p \in Procs |-> "idle"] /\ fwChain = [p \in Procs |-> <<>>]
  /\ fwErr = [p \in Procs |-> "none"]
  /\ fcPc = "idle" /\ fcFiles = {}

\* FileProcessor.WriteChain(chain): fp.wg.Add(1)
FpWriteChain(p, chain) ==
  /\ fwPc[p] = "idle"
  /\ fpWg' = fpWg + 1
  /\ fwChain' = [fwChain EXCEPT ![p] = chain]
  /\ fwErr' = [fwErr EXCEPT ![p] = "none"]
  /\ fwPc' = [fwPc EXCEPT ![p] = "lock"]
  /\ UNCHANGED <<fpLocked, fpFiles, fpClosed, fpSinks, fcPc, fcFiles>>
  /\ UNCHANGED fpFrame

\* WriteChain, one turn of its loop up to fp.lock.Unlock(): take the mutex,
\* return the Closed error when the map is nil (the deferred wg.Done runs;
\* that return has no Unlock before it), otherwise look up or create the sink
\* of the head run's category and release the mutex
FpMapCheck(p) ==
  /\ fwPc[p] = "lock" /\ ~fpLocked
  /\ IF fpClosed
     THEN /\ fpLocked' = TRUE
          /\ fwErr' = [fwErr EXCEPT ![p] = "closed"]
          /\ fpWg' = fpWg - 1
          /\ fwPc' = [fwPc EXCEPT ![p] = "idle"]
          /\ UNCHANGED <<fpFiles, fpSinks>>
     ELSE /\ fpFiles' = fpFiles \cup {fwChain[p][1]}
          /\ fpSinks' = IF fwChain[p][1] \in fpFiles THEN fpSinks
                        ELSE [fpSinks EXCEPT ![fwChain[p][1]] = "new"]
          /\ fwPc' = [fwPc EXCEPT ![p] = "write"]
          /\ UNCHANGED <<fpLocked, fwErr, fpWg>>
  /\ UNCHANGED <<fpClosed, fwChain, fcPc, fcFiles>>
  /\ UNCHANGED fpFrame

\* WriteChain: writeToSDF(sdf, fp.formatter, chain) on the head run, then the
\* remainder; ok: writeToSDF returns nil
FpWriteToSDF(p, ok) ==
  /\ fwPc[p] = "write"
  /\ LET k == splitChainAtCategory(fwChain[p])
         remaining == SubSeq(fwChain[p], k + 1, Len(fwChain[p]))
     IN IF ok
        THEN /\ fpSinks' = [fpSinks EXCEPT ![fwChain[p][1]] =
                              IF @ = "closed" THEN "late" ELSE "written"]
             /\ fwChain' = [fwChain EXCEPT ![p] = remaining]
             /\ IF remaining = <<>>
                THEN /\ fwErr' = [fwErr EXCEPT ![p] = "nil"]
                     /\ fpWg' = fpWg - 1
                     /\ fwPc' = [fwPc EXCEPT ![p] = "idle"]
                ELSE /\ fwPc' = [fwPc EXCEPT ![p] = "lock"]
                     /\ UNCHANGED <<fwErr, fpWg>>
        ELSE /\ fwErr' = [fwErr EXCEPT ![p] = "err"]
             /\ fpWg' = fpWg - 1
             /\ fwPc' = [fwPc EXCEPT ![p] = "idle"]
             /\ UNCHANGED <<fpSinks, fwChain>>
  /\ UNCHANGED <<fpLocked, fpFiles, fpClosed, fcPc, fcFiles>>
  /\ UNCHANGED fpFrame

\* FileProcessor.Close: under the mutex, files, fp.files = fp.files, nil
FpClose ==
  /\ fcPc = "idle" /\ ~fpLocked
  /\ fcFiles' = fpFiles
  /\ fpFiles' = {}
  /\ fpClosed' = TRUE
  /\ fcPc' = "wait"
  /\ UNCHANGED <<fpLocked, fpWg, fpSinks, fwPc, fwChain, fwErr>>
  /\ UNCHANGED fpFrame

\* FileProcessor.Close: fp.wg.Wait(), sdf.Close() on every sink, return nil
FpCloseSinks ==
  /\ fcPc = "wait"
  /\ WgWait(fpWg)
  /\ fpSinks' = [t \in DOMAIN fpSinks |-> IF t \in fcFiles THEN "closed" ELSE fpSinks[t]]
  /\ fcPc' = "returned"
  /\ UNCHANGED <<fpLocked, fpFiles, fpClosed, fpWg, fwPc, fwChain, fwErr, fcFiles>>
  /\ UNCHANGED fpFrame

FpNext ==
  \/ \E p \in Procs, chain \in FpChains : FpWriteChain(p, chain)
  \/ \E p \in Procs : FpMapCheck(p)
  \/ \E p \in Procs, ok \in BOOLEAN : FpWriteToSDF(p, ok)
  \/ FpClose
  \/ FpCloseSinks

\* -------------------------------------- the producer-side writer (netwriter)

\* netwriter.New: nothing pending, not closed; Run is about to dial
NwStarted ==
  /\ nwPending = <<>> /\ nwClosed = FALSE /\ nwPc = "connect" /\ nwMsg = <<>>
  /\ nwClosing = FALSE /\ nwSent = <<>> /\ nwTried = {} /\ nwFails = 0
  /\ nwNextMsg = 1 /\ nwAccepted = {} /\ nwCloses = 0 /\ nwCloseSeen = {}

\* W.AddMessage: the message is appended to pending whether or not the writer
\* is closed; the call returns an error when it was closed
NwAddMessage ==
  /\ nwNextMsg <= MaxRec
  /\ nwPending' = Append(nwPending, nwNextMsg)
  /\ nwAccepted' = IF nwClosed THEN nwAccepted ELSE nwAccepted \cup {nwNextMsg}
  /\ nwNextMsg' = nwNextMsg + 1
  /\ UNCHANGED <<nwClosed, nwPc, nwMsg, nwClosing, nwSent, nwTried, nwFails, nwCloses,
                 nwCloseSeen>>
  /\ UNCHANGED nwFrame

\* W.Close: closed = true under the lock, Signal, return nil. nwCloseSeen
\* keeps what AddMessage had accepted when the first Close returned
NwClose ==
  /\ nwCloses < MaxSignals
  /\ nwClosed' = TRUE
  /\ nwCloses' = nwCloses + 1
  /\ nwCloseSeen' = IF nwCloses = 0 THEN nwAccepted ELSE nwCloseSeen
  /\ UNCHANGED <<nwPending, nwPc, nwMsg, nwClosing, nwSent, nwTried, nwFails, nwNextMsg,
                 nwAccepted>>
  /\ UNCHANGED nwFrame

\* Run: pnet.ConnectTimeout; on an error sleep a second and dial again
NwConnect(ok) ==
  /\ nwPc = "connect"
  /\ ok \/ nwFails < MaxNetFail
  /\ nwPc' = IF ok THEN "loop" ELSE "connect"
  /\ nwFails' = IF ok THEN nwFails ELSE nwFails + 1
  /\ UNCHANGED <<nwPending, nwClosed, nwMsg, nwClosing, nwSent, nwTried, nwNextMsg,
                 nwAccepted, nwCloses, nwCloseSeen>>
  /\ UNCHANGED nwFrame

\* Run, netLoop up to the send: with no message in hand wait for pending or
\* closed and detach the queue; with nothing to send and closing, close the
\* session and return (the deferred function sets closed)
NwLoop ==
  /\ nwPc = "loop"
  /\ nwMsg # <<>> \/ nwPending # <<>> \/ nwClosed
  /\ LET msg == IF nwMsg = <<>> THEN nwPending ELSE nwMsg
         closing == IF nwMsg = <<>> THEN nwClosed ELSE nwClosing
     IN /\ nwMsg' = msg
        /\ nwClosing' = closing
        /\ nwPending' = IF nwMsg = <<>> THEN <<>> ELSE nwPending
        /\ nwPc' = IF msg # <<>> THEN "write"
                   ELSE IF closing THEN "returned" ELSE "loop"
        /\ nwClosed' = (nwClosed \/ (msg = <<>> /\ closing))
  /\ UNCHANGED <<nwSent, nwTried, nwFails, nwNextMsg, nwAccepted, nwCloses, nwCloseSeen>>
  /\ UNCHANGED nwFrame

\* Run: w.WriteChain(msg); on an error the session is closed and the netLoop
\* is left: the next iteration of the outer loop dials again and declares
\* msg and closing anew (nil and false), so the chain in hand is gone
NwWriteChain(how) ==
  /\ nwPc = "write"
  /\ how = "ok" \/ nwFails < MaxNetFail
  /\ LET r == WriteChainTimeout(nwMsg, how)
     IN /\ nwSent' = IF how = "lost" THEN nwSent ELSE nwSent \o nwMsg
        /\ IF r.err
           THEN /\ nwTried' = nwTried \cup Range(nwMsg)
                /\ nwFails' = nwFails + 1
                /\ nwPc' = "connect"
                /\ nwMsg' = <<>>
                /\ nwClosing' = FALSE
           ELSE /\ nwMsg' = <<>>
                /\ nwPc' = "loop"
                /\ UNCHANGED <<nwTried, nwFails, nwClosing>>
  /\ UNCHANGED <<nwPending, nwClosed, nwNextMsg, nwAccepted, nwCloses, nwCloseSeen>>
  /\ UNCHANGED nwFrame

NwNext ==
  \/ NwAddMessage
  \/ NwClose
  \/ \E ok \in BOOLEAN : NwConnect(ok)
  \/ NwLoop
  \/ \E how \in {"ok", "lost", "acklost"} : NwWriteChain(how)

\* ------------------------------- InputManager.Reconfigure and its inputs

\* the addresses a configuration may list: a TCP address and a UNIX socket
\* path with a file mode
Addrs == {"tcp", "unix"}

\* the configurations: up to two inputs, the same address possibly twice
RcConfigs == UNION {[1..n -> Addrs] : n \in 0..2}

\* what starting an input may do: "ok"; "listen" net.Listen fails; "perm"
\* net.Listen succeeds and os.Chmod / os.Chown on the socket path fails
RcOutcomes ==
  {o \in [Addrs -> {"ok", "listen", "perm"}] : o["tcp"] # "perm"}

\* im.Run before its first Reconfigure: no input, no listener
RcStarted ==
  /\ imInputs = <<>> /\ rcListeners = <<>> /\ rcCount = 0
  /\ rcLast = [inputs |-> <<>>, listeners |-> <<>>, config |-> <<>>,
               out |-> [a \in Addrs |-> "ok"]]

\* the addresses of a list of inputs
InputAddrs(inputs) == {inputs[k].address : k \in DOMAIN inputs}

\* Reconfigure, "remove inputs that are now closed": the inputs whose
\* address the configuration lists, in order
RECURSIVE SelectInputs(_, _)
SelectInputs(inputs, config) ==
  IF inputs = <<>> THEN <<>>
  ELSE IF Head(inputs).address \in Range(config)
  THEN <<Head(inputs)>> \o SelectInputs(Tail(inputs), config)
  ELSE SelectInputs(Tail(inputs), config)

\* Reconfigure, "kill off inputs that are no longer in the list": closing is
\* set and input.close() closes the listener and every accepted connection
RcKill(inputs, listeners, config) ==
  [l \in DOMAIN listeners |->
     IF \E k \in DOMAIN inputs : inputs[k].l = l /\ inputs[k].address \notin Range(config)
     THEN [listeners[l] EXCEPT !.open = FALSE, !.conns = 0]
     ELSE listeners[l]]

\* Reconfigure, "start inputs that are new to the list", for the inputs of
\* config in order: an address that has an input is skipped; a failed
\* net.Listen and a failed permission change both continue with the next
\* input, the second leaving the listener it opened behind
RECURSIVE RcStart(_, _, _, _)
RcStart(config, inputs, listeners, out) ==
  IF config = <<>> THEN [inputs |-> inputs, listeners |-> listeners]
  ELSE LET a == Head(config)
           l == Len(listeners) + 1
       IN IF a \in InputAddrs(inputs) \/ out[a] = "listen"
          THEN RcStart(Tail(config), inputs, listeners, out)
          ELSE IF out[a] = "perm"
          THEN RcStart(Tail(config), inputs,
                       Append(listeners, [address |-> a, open |-> TRUE, conns |-> 0]), out)
          ELSE RcStart(Tail(config),
                       Append(inputs, [address |-> a, l |-> l]),
                       Append(listeners, [address |-> a, open |-> TRUE, conns |-> 0]), out)

\* InputManager.Reconfigure(config), the part on im.inputs
RcReconfigure(config, out) ==
  /\ rcCount < MaxReconf
  /\ LET killed == RcKill(imInputs, rcListeners, config)
         kept == SelectInputs(imInputs, config)
         r == RcStart(config, kept, killed, out)
     IN /\ imInputs' = r.inputs
        /\ rcListeners' = r.listeners
  /\ rcLast' = [inputs |-> imInputs, listeners |-> rcListeners, config |-> config,
                out |-> out]
  /\ rcCount' = rcCount + 1
  /\ UNCHANGED rcFrame

\* Input.run of an active input: Accept returns a connection
RcAccept(k) ==
  /\ k \in DOMAIN imInputs
  /\ rcListeners[imInputs[k].l].open
  /\ rcListeners[imInputs[k].l].conns < MaxConn
  /\ rcListeners' = [rcListeners EXCEPT ![imInputs[k].l].conns = @ + 1]
  /\ UNCHANGED <<imInputs, rcLast, rcCount>>
  /\ UNCHANGED rcFrame

RcNext ==
  \/ \E config \in RcConfigs, out \in RcOutcomes : RcReconfigure(config, out)
  \/ \E k \in 1..2 : RcAccept(k)

\* ------------------------------------------- a client session (net.Writer)

\* no session yet
ClientIdle ==
  /\ ctPc = "idle" /\ ctConn = "none" /\ ctReply = NoHello /\ ctFrames = 0
  /\ ctLast = [n |-> 0, reply |-> NoReply, err |-> FALSE, sent |-> FALSE]

\* ConnectTimeout: dial, send CONNECT, read 9 bytes, compare command, magic
\* and version. how: "dial", "send", "recv" the step that fails, "ok" none
ConnectTimeout(how, reply) ==
  /\ ctPc = "idle"
  /\ IF how = "dial"
     THEN ctPc' = "failed" /\ UNCHANGED <<ctConn, ctReply>>
     ELSE IF how \in {"send", "recv"}
     THEN ctPc' = "failed" /\ ctConn' = "closed" /\ UNCHANGED ctReply
     ELSE /\ ctReply' = reply
          /\ IF reply.cmd # CmdConnectAck \/ reply.magic # Magic \/ reply.version # Version
             THEN ctPc' = "failed" /\ ctConn' = "closed"
             ELSE ctPc' = "session" /\ ctConn' = "open"
  /\ UNCHANGED <<ctFrames, ctLast>>
  /\ UNCHANGED clientFrame

\* Writer.WriteChain -> WriteChainTimeout on a chain of n records: send the
\* CHAIN frame, flush, read 5 bytes, compare command and count. how: "write",
\* "flush", "recv" the step that fails, "ok" none
NetWriteChain(n, how, reply) ==
  /\ ctPc = "session"
  /\ ctFrames < MaxFrames
  /\ ctFrames' = ctFrames + 1
  /\ ctLast' = [n |-> n,
                reply |-> IF how = "ok" THEN reply ELSE NoReply,
                err |-> how # "ok" \/ reply.cmd # CmdChainAck \/ reply.count # n,
                sent |-> TRUE]
  /\ UNCHANGED <<ctPc, ctConn, ctReply>>
  /\ UNCHANGED clientFrame

\* Writer.Close
NetClose ==
  /\ ctPc = "session"
  /\ ctPc' = "closed"
  /\ ctConn' = "closed"
  /\ UNCHANGED <<ctReply, ctFrames, ctLast>>
  /\ UNCHANGED clientFrame

\* no connection being served (the relay is looked at on its own)
ServeIdle ==
  /\ svPc = "closed" /\ svOc = OcDefault /\ svChain = <<>> /\ svFrame = <<>>
  /\ svFrameNo = 0 /\ lastReadCount = 0 /\ svProcResult = "none"
  /\ svOut = [p \in Processors |-> <<>>] /\ svAcks = <<>> /\ connOpen = FALSE
  /\ svNextId = 1
  /\ svHello = NoHello /\ svAckSent = FALSE

\* a connection has just been accepted: go serve(conn, im, connLock)
ServeInit ==
  /\ svPc = "handshake" /\ svOc \in {OcDefault, OcNoDefault}
  /\ svChain = <<>> /\ svFrame = <<>>
  /\ svFrameNo = 0 /\ lastReadCount = 0 /\ svProcResult = "none"
  /\ svOut = [p \in Processors |-> <<>>] /\ svAcks = <<>> /\ connOpen = TRUE
  /\ svNextId = 1
  /\ svHello = NoHello /\ svAckSent = FALSE
  /\ ClientIdle
  /\ RouterIdle
  /\ MainIdle
  /\ DailyIdle
  /\ FpStarted
  /\ DiskIdle
  /\ NwStarted /\ RcStarted
  /\ NewWriter

Frames == UNION {[1..n -> Categories] : n \in 0..MaxFrameLen}

ServeNext ==
  \/ \E how \in {"ok", "recv", "send"}, hello \in Hellos : SvHandshake(how, hello)
  \/ \E cats \in Frames : SvRead(cats)
  \/ SvReadFail
  \/ \E writeErr \in BOOLEAN : SvDispatch(writeErr)
  \/ \E ok \in BOOLEAN : SvAck(ok)
  \/ \E how \in {"ok", "dial", "send", "recv"}, reply \in Hellos : ConnectTimeout(how, reply)
  \/ \E n \in 0..MaxFrameLen, how \in {"ok", "write", "flush", "recv"}, reply \in Replies :
       NetWriteChain(n, how, reply)
  \/ NetClose

ServeSpec == ServeInit /\ [][ServeNext]_vars

RouterInit ==
  /\ RouterParsed
  /\ NewWriter /\ ServeIdle /\ ClientIdle /\ MainIdle /\ DailyIdle /\ FpStarted /\ DiskIdle
  /\ NwStarted /\ RcStarted

RouterSpec == RouterInit /\ [][RouterNext]_vars

MainInit ==
  /\ MainStarted
  /\ NewWriter /\ ServeIdle /\ ClientIdle /\ RouterIdle /\ DailyIdle /\ FpStarted /\ DiskIdle
  /\ NwStarted /\ RcStarted

MainSpec == MainInit /\ [][MainNext]_vars

DailyInit ==
  /\ DailyStarted
  /\ NewWriter /\ ServeIdle /\ ClientIdle /\ RouterIdle /\ MainIdle /\ FpStarted /\ DiskIdle
  /\ NwStarted /\ RcStarted

DailySpec == DailyInit /\ [][DailyNext]_vars

FpInit ==
  /\ FpStarted
  /\ NewWriter /\ ServeIdle /\ ClientIdle /\ RouterIdle /\ MainIdle /\ DailyIdle /\ DiskIdle
  /\ NwStarted /\ RcStarted

FpSpec == FpInit /\ [][FpNext]_vars

DiskInit ==
  /\ DiskIdle
  /\ NewWriter /\ ServeIdle /\ ClientIdle /\ RouterIdle /\ MainIdle /\ DailyIdle
  /\ FpStarted
  /\ NwStarted /\ RcStarted

DiskSpec == DiskInit /\ [][DiskNext]_vars

NwInit ==
  /\ NwStarted /\ RcStarted
  /\ NewWriter /\ ServeIdle /\ ClientIdle /\ RouterIdle /\ MainIdle /\ DailyIdle
  /\ FpStarted /\ DiskIdle

NwSpec == NwInit /\ [][NwNext]_vars

RcInit ==
  /\ RcStarted
  /\ NewWriter /\ ServeIdle /\ ClientIdle /\ RouterIdle /\ MainIdle /\ DailyIdle
  /\ FpStarted /\ DiskIdle /\ NwStarted

RcSpec == RcInit /\ [][RcNext]_vars

Init ==
  /\ NewWriter /\ ServeIdle /\ ClientIdle /\ RouterIdle /\ MainIdle /\ DailyIdle /\ DiskIdle
  /\ FpStarted
  /\ NwStarted /\ RcStarted

Next ==
  \/ \E n \in 1..MaxChainLen : WriteChain(n)
  \/ CloseCall
  \/ CloseReturn
  \/ Worker
  \/ Dialer

Spec == Init /\ [][Next]_vars

\* the scheduler runs every goroutine that can take a step: the state task,
\* the dial goroutine, and the caller blocked in Close
FairSpec == Spec /\ WF_vars(Worker) /\ WF_vars(Dialer) /\ WF_vars(CloseReturn)

\* the worker while every dial is refused and the spool does not fail: it
\* stays in CONNECTING
OutageWorker ==
  \/ RunConnectingEnter \/ CgLoop \/ CgWake
  \/ CgWrite("ok")
  \/ CgCheck \/ CgWgWait \/ CgConn

OutageNext ==
  \/ \E n \in 1..MaxChainLen : WriteChain(n)
  \/ CloseCall
  \/ CloseReturn
  \/ OutageWorker
  \/ DialRefused

OutageSpec ==
  Init /\ [][OutageNext]_vars
       /\ WF_vars(OutageWorker) /\ WF_vars(DialRefused) /\ WF_vars(CloseReturn)

\* the worker when the spool does not fail, no send fails and Close is not
\* called: CONNECTING, then REPLICATING, then CONNECTED
RecoveryWorker ==
  \/ RunConnectingEnter \/ CgLoop \/ CgWake
  \/ CgWrite("ok")
  \/ CgCheck \/ CgConn
  \/ CgDwClose("ok")
  \/ RunReplicatingEnter
  \/ RpLoad("ok")
  \/ RpSend("ok")
  \/ RpDelete("ok")
  \/ RunConnectedEnter \/ CdLoop \/ CdWake
  \/ CdSend("ok")
  \/ CdCheck

RecoveryNext ==
  \/ \E n \in 1..MaxChainLen : WriteChain(n)
  \/ RecoveryWorker
  \/ DialRefused
  \/ Dial("ok")

\* an outage that ends: dials are refused for a while, then one succeeds (the
\* upstream becomes reachable: a dial that is tried again and again succeeds)
RecoverySpec ==
  Init /\ [][RecoveryNext]_vars
       /\ WF_vars(RecoveryWorker) /\ SF_vars(Dial("ok"))

\* ----------------------------------------------------------------- claims

Delivered(r) == r \in Range(observed)

InSpool(r) == \E s \in DOMAIN spool : r \in Range(spool[s])

\* nothing more will be sent: the process died, or the worker finished and
\* Close returned
WriterOver == panicked \/ (pc = "exited" /\ closeReturned)

RpPcs == {"rp_enter", "rp_load", "rp_send", "rp_delete"}

CdPcs == {"cd_enter", "cd_loop", "cd_wait", "cd_send", "cd_check", "cd_final", "cd_exit"}

Ascending(s) == \A i, j \in 1..Len(s) : i < j => s[i] < s[j]

\* C1: at-least-once. When the writer is over, every record of every chain
\* for which WriteChain returned nil has been observed by the upstream (or, at
\* the least, is held by a spool segment from which a replay can still send
\* it), or Close returned the latched diskErr.
C1_AtLeastOnce ==
  WriterOver =>
    \/ closeReturned /\ closeResult
    \/ \A r \in accepted : Delivered(r) \/ InSpool(r)

\* C2: once Close has set closed, the worker reaches DONE and Close returns.
\* Stated for the executions in which no spool error is latched and the
\* process does not die, which the property covers as well.
C2_CloseTerminates ==
  closeCalled ~> ((closeReturned /\ pc = "exited") \/ diskErr \/ panicked)

\* C3: diskErr is latched: once set it stays set, closed is true whenever it
\* is set, and a WriteChain call made while it is set returns the error and
\* leaves the incoming queue as it was.
C3_DiskErrLatched ==
  [][/\ diskErr => diskErr'
     /\ diskErr' => closed'
     /\ (diskErr /\ nextRec' # nextRec) =>
          /\ lastWrite'.err
          /\ incoming' = incoming
          /\ incomingTail' = incomingTail]_vars

\* a WriteChain call was refused after diskErr was set
C3_Witness ==
  /\ diskErr /\ closed
  /\ lastWrite.err /\ lastWrite.chain # <<>>
  /\ Range(lastWrite.chain) \subseteq rejected

\* C4: Close returns nil if and only if no spool operation failed during the
\* writer's lifetime; otherwise it returns the latched diskErr.
C4_CloseReturnsDiskErr == closeReturned => (closeResult <=> diskErrs > 0)

\* C5: order preservation: of two records handed to the writer in the order
\* r1, r2, the upstream's first observation of r1 precedes that of r2.
C5_OrderPreserved ==
  \A r1, r2 \in 1..MaxRec :
    (r1 < r2 /\ Delivered(r1) /\ Delivered(r2)) =>
      FirstPos(observed, r1) < FirstPos(observed, r2)

\* records were observed in order across a failed send and a replay
C5_Witness ==
  /\ Len(observed) >= 3 /\ lostAck # {}
  /\ Cardinality(Range(observed)) >= 2
  /\ deleted # <<>>

\* C6: REPLICATING never touches the incoming queue, CONNECTED is entered only
\* from REPLICATING when LoadOldestMessages found no segment, and the spool is
\* empty whenever the worker is in CONNECTED.
C6_ConnectedAfterSpoolEmpty ==
  [][/\ (pc \in RpPcs /\ nextRec' = nextRec) =>
          (incoming' = incoming /\ incomingTail' = incomingTail)
     /\ (pc' \in CdPcs /\ pc \notin CdPcs) => (pc = "rp_load" /\ DOMAIN spool = {})
     /\ pc' \in CdPcs => DOMAIN spool' = {}]_vars

\* a queue that arrived during a replay is sent directly after the replay
C6_Witness ==
  /\ pc = "cd_send" /\ wIncoming # <<>>
  /\ deleted # <<>> /\ observed # <<>>

\* C7 as claimed: when the writer is over, the records observed more than once
\* are exactly the records of a frame the upstream dispatched while the
\* sender's WriteChainTimeout failed.
C7_DuplicateIffAckLost ==
  (pc = "exited" /\ closeReturned) =>
    \A r \in 1..MaxRec : (Count(observed, r) > 1) <=> (r \in lostAck)

\* C7 as amended: a record is observed more than once only if a frame that
\* held it was dispatched by the upstream while the sender's call failed; if
\* no ack was lost, no record is observed twice.
C7_DuplicateOnlyIfAckLost ==
  \A r \in 1..MaxRec : Count(observed, r) > 1 => r \in lostAck

\* a record was observed twice
C7_Witness == \E r \in lostAck : Count(observed, r) > 1

\* C8: a non-empty segment leaves the spool only by DiskChain.Delete after the
\* chain loaded from it was sent and acknowledged; a failed send leaves the
\* spool as it is, and a REPLICATING pass loads the oldest non-empty segment
\* first, which is the one whose send failed.
C8_DeleteAfterAck ==
  [][/\ \A s \in DOMAIN spool :
          (s \notin DOMAIN spool' /\ spool[s] # <<>>) =>
            /\ pc = "rp_delete"
            /\ entries = [Chain |-> spool[s], suffix |-> s]
            /\ lastSend = [Chain |-> spool[s], err |-> FALSE]
            /\ Range(spool[s]) \subseteq Range(observed)
     /\ (pc = "rp_send" /\ pc' = "cg_enter") =>
          (spool' = spool /\ entries.suffix \in DOMAIN spool')
     /\ (pc = "rp_load" /\ pc' = "rp_send") =>
          entries'.suffix = SetMin({s \in DOMAIN spool : spool[s] # <<>>})]_vars

\* a segment whose first send lost its ack was sent again and then deleted
C8_Witness ==
  /\ pc = "rp_load" /\ passDeleted # <<>>
  /\ ~lastSend.err
  /\ \E r \in lostAck : Count(observed, r) = 2 /\ ~InSpool(r)

\* C9 as claimed: over the whole lifetime of the spool directory every deleted
\* segment has a suffix greater than every segment deleted before it.
C9_DeletedAscending == Ascending(deleted)

\* C9 as amended: every segment deleted is, when it is deleted, the segment
\* with the smallest suffix in the spool directory, and within one REPLICATING
\* pass the deleted suffixes are strictly ascending.
C9_DeletesOldestPresent ==
  [][/\ deleted' # deleted =>
          /\ DOMAIN spool # {}
          /\ Last(deleted') = SetMin(DOMAIN spool)
          /\ DOMAIN spool' = DOMAIN spool \ {Last(deleted')}
     /\ Ascending(passDeleted')]_vars

\* two segments were deleted in one pass
C9_Witness == Len(passDeleted) >= 2 /\ Len(deleted) >= 2

\* every record of the frame was handed to the processor FindProcessor names
FrameDispatched ==
  \A i \in 1..Len(svFrame) :
    LET r == FindProcessor(svOc, svFrame[i].Category)
    IN /\ ~r.panic
       /\ r.processor # Nil => svFrame[i] \in Range(svOut[r.processor])

\* C10: CHAIN_ACK is sent only after processChain returned success for the
\* whole chain; when a processor's WriteChain fails, no ack is sent for that
\* chain and the connection is closed.
C10_AckAfterDispatch ==
  [][/\ svAcks' # svAcks =>
          (svProcResult = "ok" /\ svChain = <<>> /\ FrameDispatched)
     /\ svProcResult' = "err" =>
          /\ ~connOpen' /\ svPc' = "closed"
          /\ \A i \in 1..Len(svAcks') : svAcks'[i].frame # svFrameNo']_vars

\* one frame was acknowledged, the dispatch of the next one failed
C10_Witness ==
  /\ Len(svAcks) >= 1 /\ svProcResult = "err" /\ ~connOpen
  /\ \E p \in Processors : svOut[p] # <<>>

\* ---------------------------------------------------- the wire protocol

\* C11: request/response pairing. Server: whenever serve is back at Read with
\* the connection open, every CHAIN frame read so far (of any count, 0
\* included) has been answered by one CHAIN_ACK carrying its count. Client:
\* WriteChainTimeout returns nil exactly when the 5-byte reply is CHAIN_ACK with
\* the count it sent.
C11_RequestResponsePairing ==
  /\ (svPc = "read" /\ connOpen /\ svFrameNo > 0) =>
        /\ Len(svAcks) = svFrameNo
        /\ svAcks[svFrameNo] = [frame |-> svFrameNo, count |-> Len(svFrame)]
  /\ ctLast.sent =>
        (~ctLast.err <=> (ctLast.reply.cmd = "CHAIN_ACK" /\ ctLast.reply.count = ctLast.n))

\* C12: handshake validation. A server session exists, or CONNECT_ACK was sent,
\* or a frame was read, only after a CONNECT with the agreed magic and version;
\* a client session exists, or a chain was sent, only after a CONNECT_ACK with
\* the agreed magic and version. After a mismatch there is no session, no
\* chain was read or sent, and the connection is closed.
C12_HandshakeValidation ==
  /\ (svPc \in {"read", "dispatch", "ack"} \/ svAckSent \/ svFrameNo > 0) =>
        svHello = [cmd |-> "CONNECT", magic |-> "MAGIC", version |-> "VERSION"]
  /\ (svHello # NoHello /\ svHello # [cmd |-> "CONNECT", magic |-> "MAGIC", version |-> "VERSION"]) =>
        (svPc = "closed" /\ ~connOpen /\ svFrameNo = 0 /\ ~svAckSent)
  /\ (ctPc \in {"session", "closed"} \/ ctFrames > 0) =>
        ctReply = [cmd |-> "CONNECT_ACK", magic |-> "MAGIC", version |-> "VERSION"]
  /\ (ctReply # NoHello /\ ctReply # [cmd |-> "CONNECT_ACK", magic |-> "MAGIC", version |-> "VERSION"]) =>
        (ctPc = "failed" /\ ctConn = "closed" /\ ctFrames = 0)

\* a server that refused a CONNECT of another version, and a client that
\* refused a CONNECT_ACK of another magic
C12_Witness ==
  /\ svHello = [cmd |-> "CONNECT", magic |-> "MAGIC", version |-> "other"]
  /\ svPc = "closed" /\ ~connOpen
  /\ ctReply = [cmd |-> "CONNECT_ACK", magic |-> "other", version |-> "VERSION"]
  /\ ctPc = "failed" /\ ctConn = "closed"

\* ------------------------------------------------------------ the router

\* C19: FindProcessor returns the processor of the first configured
\* non-default rule whose pattern matches the category, and the default
\* rule's processor (none when no default rule is configured) exactly when no
\* non-default pattern matches. Processors are named by the index of their
\* rule in the configuration.
C19_FindProcessor ==
  rtFound.done =>
    LET hits == {i \in 1..Len(rtRules) :
                   rtRules[i].Pattern # "" /\ rtFound.category \in RegexpCompile(rtRules[i].Pattern).match}
        defaults == {i \in 1..Len(rtRules) : rtRules[i].Pattern = ""}
    IN /\ ~rtFound.panic
       /\ hits # {} => rtFound.processor = SetMin(hits)
       /\ hits = {} => rtFound.processor = (IF defaults = {} THEN Nil ELSE SetMax(defaults))

\* the configured rule at index i, compiled
C20_Compiled(i) ==
  [Pattern |-> rtRules[i].Pattern, Type |-> rtRules[i].Type,
   expr |-> IF rtRules[i].Pattern = "" THEN NoExpr
            ELSE [nil |-> FALSE, match |-> RegexpCompile(rtRules[i].Pattern).match],
   processor |-> i]

\* C20: after Compile succeeds, Outputs[0] is the rule with the empty pattern
\* (a nil placeholder when there is none) and Outputs[1:] holds the other
\* configured rules, each once, in configured order, compiled.
C20_CompileOrder ==
  rtState = "compiled" =>
    LET n == Len(rtRules)
        defaults == {i \in 1..n : rtRules[i].Pattern = ""}
    IN \E d \in (IF defaults = {} THEN {0} ELSE defaults) :
         /\ Len(rtOutputs) = (IF d = 0 THEN n + 1 ELSE n)
         /\ rtOutputs[1] = (IF d = 0 THEN NilOutput ELSE C20_Compiled(d))
         /\ \A j \in 2..Len(rtOutputs) :
              rtOutputs[j] = C20_Compiled(IF d # 0 /\ j - 1 >= d THEN j ELSE j - 1)

\* ------------------------------------------------- the input manager

\* C13: a handshake, framing or decode error ends one serve call and closes
\* its connection only: the listener and the accept loop stay as they are
\* and no other connection of the input changes.
C13_ErrorClosesOnlyThatConnection ==
  [][\A c \in Conns :
       (cPc[c] \in {"handshake", "read"} /\ cPc'[c] = "closed") =>
         /\ inListening' = inListening /\ inRun' = inRun
         /\ \A d \in Conns \ {c} :
              cPc'[d] = cPc[d] /\ cOpen'[d] = cOpen[d] /\ cChain'[d] = cChain[d]]_vars

\* the first connection failed its handshake; the second one was accepted
\* after that and has had a chain dispatched
C13_Witness ==
  /\ cEnd[1] = "handshake" /\ 1 \in cSeen[2] /\ cPc[2] = "ack"
  /\ inListening /\ inRun = "accepting"

\* C14: no Processor.WriteChain call begins on a processor of a chain on which
\* OutputChain.Close has already been called.
C14_NoWriteAfterClose ==
  [][\A c \in Conns :
       (cPc[c] # "write" /\ cPc'[c] = "write") => mChains[cChain[c]].closes = 0]_vars

\* C15: after a failed reload the active chain's processors are still open,
\* the configuration is still there, and the process does not crash on a
\* later signal.
C15_FailedReloadKeepsConfig ==
  /\ (mLastLoad = "failed" /\ hPc = "idle" /\ ~mPanicked) =>
        (mConfig # Nil /\ mChains[imCurrent].closes = 0)
  /\ mLastLoad = "failed" => ~mPanicked

\* C16: a dispatch acquires the chain that is current at that moment, never
\* one whose wait in Reconfigure has completed; a chain's counter is the
\* number of dispatches holding it; and Reconfigure completes its wait (and
\* then closes the old chain) only when no dispatch holds that chain, which by
\* then is no longer the current one.
C16_RefcountedSwap ==
  [][/\ \A c \in Conns :
          (cChain'[c] # cChain[c] /\ cChain'[c] # Nil) =>
            (cChain'[c] = imCurrent /\ ~mChains[imCurrent].released)
     /\ \A g \in 1..Len(mChains) :
          /\ mChains[g].refs = Cardinality({c \in Conns : cChain[c] = g})
          /\ (mChains'[g].released /\ ~mChains[g].released) =>
               /\ \A c \in Conns : cChain[c] # g /\ cChain'[c] # g
               /\ imCurrent # g
               /\ mChains'[g].closes > mChains[g].closes
          /\ mChains[g].released => \A c \in Conns : cChain'[c] # g]_vars

\* Reconfigure is waiting for a dispatch that holds the old chain while
\* another dispatch, begun after the swap, holds the new one
C16_Witness ==
  /\ hPc = "rc_wait" /\ hOld # imCurrent
  /\ \E c, d \in Conns : cChain[c] = hOld /\ cChain[d] = imCurrent

\* --------------------------------------------------------- daily sinks

\* C17: a file of the sink is closed, by rotation or by Close,
\* only while the in-flight count is zero.
C17_CloseAtZeroInflight ==
  [][\A f \in 1..Len(dFiles) :
       (dFiles[f].open /\ ~dFiles'[f].open) => sdfWg = 0]_vars

\* C18: every handle GetWriter returned refers to the file named for the
\* local date of the call, at most one file of the sink is open, and the
\* records in a file were all written on the day the file is named for.
C18_DailyRotation ==
  /\ \A p \in Procs :
       gPc[p] = "holding" =>
         (gHandle[p] # Nil /\ dFiles[gHandle[p]].day = Day(gNow[p]))
  /\ Cardinality({f \in 1..Len(dFiles) : dFiles[f].open}) <= 1
  /\ \A f \in 1..Len(dFiles) : dFiles[f].wrote \subseteq {dFiles[f].day}

\* ------------------------------------------------- routing and the sinks

\* the processor FindProcessor selects for a record
ProcessorOf(rec) == FindProcessor(svOc, rec.Category).processor

\* C21: every step of processChain takes a head run off the chain: the run
\* followed by the remainder is the chain, all records of the run map to the
\* processor of the head record, the run is maximal (the first record of the
\* remainder maps to another processor), and the run is appended, in chain
\* order, to what that processor was handed and to nothing else. When
\* processChain has returned nil, every record of the chain is, exactly once,
\* in what its processor was handed and in no other processor's.
C21_Routing ==
  [][/\ (svPc = "dispatch" /\ svChain' # svChain) =>
          \E k \in 1..Len(svChain) :
            LET head == SubSeq(svChain, 1, k)
                p == ProcessorOf(svChain[1])
            IN /\ svChain = head \o svChain'
               /\ \A i \in 1..k : ProcessorOf(svChain[i]) = p
               /\ svChain' # <<>> => ProcessorOf(svChain'[1]) # p
               /\ p # Nil => svOut' = [svOut EXCEPT ![p] = @ \o head]
     /\ svProcResult' = "ok" =>
          \A i \in 1..Len(svFrame') : \A q \in Processors :
            Count(svOut'[q], svFrame'[i]) =
              IF q = ProcessorOf(svFrame'[i]) THEN 1 ELSE 0]_vars

\* a frame of two records for two processors was dispatched, one call each
C21_Witness ==
  /\ svProcResult = "ok" /\ Len(svFrame) = 2
  /\ ProcessorOf(svFrame[1]) # ProcessorOf(svFrame[2])
  /\ svFrame[1] \in Range(svOut[ProcessorOf(svFrame[1])])
  /\ svFrame[2] \in Range(svOut[ProcessorOf(svFrame[2])])

\* C22: once Close has set the map to nil, a WriteChain call that is at the
\* map check is not blocked (the mutex is not held by a call that has
\* returned) and no sink is written after it was closed; when Close has
\* returned, no call that passed the map check is still writing and every sink
\* of the map has been closed.
C22_CloseRejectsWrites ==
  /\ \A p \in Procs : (fwPc[p] = "lock" /\ fpClosed) => ~fpLocked
  /\ \A t \in DOMAIN fpSinks : fpSinks[t] # "late"
  /\ fcPc = "returned" =>
       /\ \A p \in Procs : fwPc[p] # "write"
       /\ \A t \in fcFiles : fpSinks[t] = "closed"

\* -------------------------------------------------------- the disk spool

\* C23: a call of disk.Writer.WriteChain that returned nil flushed the buffered
\* writer and fsynced the segment, both without error.
C23_SuccessAfterFlushAndSync ==
  (dkLast.how # "none" /\ ~dkLast.err) => (dkLast.flushed /\ dkLast.synced)

\* C24: a segment that appears in the spool directory has the suffix (largest
\* suffix present) + 1, or 0 when the directory was empty; among the segments
\* present, every record of a segment with a smaller suffix was enqueued
\* before every record of a segment with a larger suffix; and every segment
\* REPLICATING loads is the one with the smallest suffix present.
C24_SuffixOrder ==
  [][/\ DOMAIN spool' \ DOMAIN spool # {} =>
          DOMAIN spool' \ DOMAIN spool =
            {IF DOMAIN spool = {} THEN 0 ELSE SetMax(DOMAIN spool) + 1}
     /\ \A s, t \in DOMAIN spool' :
          s < t => \A i \in 1..Len(spool'[s]), j \in 1..Len(spool'[t]) :
                     spool'[s][i] < spool'[t][j]
     /\ entries' # entries =>
          (DOMAIN spool # {} /\ entries'.suffix = SetMin(DOMAIN spool))]_vars

\* after segment 0 was sent and deleted, the older of two segments present
\* has been loaded
C24_Witness ==
  /\ pc = "rp_send" /\ deleted # <<>>
  /\ Cardinality(DOMAIN spool) >= 2
  /\ entries.suffix = SetMin(DOMAIN spool)
  /\ \A s \in DOMAIN spool : spool[s] # <<>>

\* the records of the spool, segment after segment in suffix order
RECURSIVE SpoolContent(_)
SpoolContent(sp) ==
  IF DOMAIN sp = {} THEN <<>>
  ELSE LET s == SetMin(DOMAIN sp)
       IN sp[s] \o SpoolContent([t \in DOMAIN sp \ {s} |-> sp[t]])

\* C25: while every dial is refused, diskErr stays nil and the spool holds
\* accepted records in arrival order; every record accepted before Close is
\* called is eventually in the spool; and Close, once called, returns, with
\* nil and with every record accepted before the call in the spool.
C25_SpoolingDuringOutage ==
  /\ [](~diskErr /\ Ascending(SpoolContent(spool)))
  /\ [](closeReturned => (~closeResult /\ \A r \in closeSeen : InSpool(r)))
  /\ \A r \in 1..MaxRec : (r \in accepted /\ ~closeCalled) ~> InSpool(r)
  /\ closeCalled ~> closeReturned

\* C26: when the outage ends and nothing fails, the worker eventually is in
\* CONNECTED with the spool directory empty; every segment it loads on the
\* way is the oldest present; the upstream observes the records in enqueue
\* order, each once; in CONNECTED every accepted record has been observed or
\* is still in the in-memory queue, behind everything observed; and every
\* accepted record is eventually observed.
C26_RecoveryAfterOutage ==
  /\ <>(pc \in CdPcs /\ DOMAIN spool = {})
  /\ [][entries' # entries =>
          (DOMAIN spool # {} /\ entries'.suffix = SetMin(DOMAIN spool))]_vars
  /\ [](/\ Ascending(observed)
        /\ pc \in CdPcs =>
             /\ DOMAIN spool = {}
             /\ \A r \in accepted :
                  \/ Delivered(r)
                  \/ /\ r \in Range(incoming) \cup Range(wIncoming)
                     /\ \A o \in Range(observed) : o < r)
  /\ \A r \in 1..MaxRec : r \in accepted ~> Delivered(r)

\* two segments spooled during the outage were replayed and deleted, a record
\* that arrived later was sent from CONNECTED
C26_Witness ==
  /\ pc = "cd_wait" /\ Len(deleted) >= 2 /\ DOMAIN spool = {}
  /\ observed = <<1, 2, 3>>
  /\ lastSend.Chain = <<3>>

\* --------------------------------------------------- the producer side

\* C27: when W.Close() has returned, every message AddMessage accepted before
\* the call has been sent to the upstream and acknowledged, or a send attempt
\* for it has failed.
C27_CloseAfterDrain ==
  nwCloses >= 1 => \A m \in nwCloseSeen : m \in Range(nwSent) \/ m \in nwTried

\* C28: a call of disk.Writer.WriteChain that returns nil with its buffer
\* flushed has appended to the spool exactly the records of its chain, in
\* chain order, each once, whatever budget the open segment had left.
C28_SplitLoopPreservesChain ==
  [][(nextRec' # nextRec /\ ~dkLast'.err /\ dkLast'.flushed) =>
       /\ SpoolContent(spool') = SpoolContent(spool) \o dkLast'.chain
       /\ \A i \in 1..Len(dkLast'.chain) :
            Count(SpoolContent(spool'), dkLast'.chain[i]) = 1]_vars

\* a chain longer than the budget left was written: its last record went into
\* a segment whose budget was already used up
C28_Witness ==
  /\ ~dkLast.err /\ dkLast.flushed /\ Len(dkLast.chain) = MaxDiskChain
  /\ dkLast.f # NoFile /\ dkLast.rem < Len(dkLast.chain) * RecSize
  /\ \E s \in DOMAIN spool :
       /\ Len(spool[s]) * RecSize > MaxFileSize
       /\ Last(spool[s]) = Last(dkLast.chain)

\* ------------------------------------------------ the relay's error paths

\* C29: the completion handle is signalled at most once (the counter of
\* w.process goes from 1 to 0 and stays there), and once it has been
\* signalled with diskErr set, the worker writes nothing more to the spool,
\* starts no dial and enters no state.
C29_DoneOnceAfterSpoolError ==
  /\ [](processCount \in {0, 1} /\ ~panicked)
  /\ [][(diskErr /\ processCount = 0) =>
          /\ spool' = spool
          /\ dial' = "dialing" => dial = "dialing"
          /\ pc' \in {"cg_enter", "rp_enter", "cd_enter"} => pc' = pc]_vars

\* C30: a failed send in CONNECTED leaves the queue holding the failed chain
\* followed by what arrived during the send, every record once.
C30_FailedChainBackInFront ==
  [][(pc = "cd_send" /\ netFails' = netFails + 1) =>
       /\ ~panicked'
       /\ pc' = "cg_enter"
       /\ incoming' = wIncoming \o incoming
       /\ \A i, j \in 1..Len(incoming') :
            incoming'[i] = incoming'[j] => i = j]_vars

\* a send has failed in CONNECTED while records arrived, and the worker is
\* about to enter CONNECTING with the failed chain in front of them
C30_Witness ==
  /\ pc = "cg_enter" /\ lastSend.err /\ lastSend.Chain # <<>>
  /\ Len(incoming) > Len(lastSend.Chain)
  /\ SubSeq(incoming, 1, Len(lastSend.Chain)) = lastSend.Chain

\* C31: whenever the mutex is free and the queue is not empty, incomingTail
\* is the last record of the queue (so that WriteChain appends after it).
C31_TailIsLastOfQueue ==
  (lock = "free" /\ incoming # <<>>) => incomingTail = Last(incoming)

\* C32: a step of a WriteChain or Close caller is taken with the mutex free
\* (the caller holds it for the step) and changes nothing of the state task:
\* not its position, its detached chain, the dial result, the spool, the
\* session or the completion counter. A state task is entered only when the
\* dial of the task before it has delivered its result, and the worker is in
\* one state at a time, holding the mutex only inside runConnecting,
\* runReplicating or runConnected.
C32_SingleStateTask ==
  /\ [][(nextRec' # nextRec \/ closeCalled' # closeCalled \/ closeReturned' # closeReturned) =>
          /\ lock = "free" /\ lock' = "free"
          /\ UNCHANGED <<taskVars, diskVars, netVars, processCount>>]_vars
  /\ [](pc \in {"cg_enter", "rp_enter", "cd_enter", "exited"} =>
          dial # "dialing" /\ (~panicked => lock = "free"))

\* the worker is sending in CONNECTED with the mutex released, and meanwhile
\* a WriteChain call has queued records and Close has set closed
C32_Witness ==
  /\ pc = "cd_send" /\ lock = "free" /\ wIncoming # <<>>
  /\ incoming # <<>> /\ closeCalled /\ closed

\* ------------------------------------------------------- the segment roll

\* C33: no record is appended to a segment whose budget is used up: the
\* records of a segment before its last one take less than MaxFileSize.
C33_SegmentRoll ==
  \A s \in DOMAIN spool : (Len(spool[s]) - 1) * RecSize < MaxFileSize

\* ------------------------------------------------ routing without a default

\* C34: with a chain compiled from rules without a default, dispatching a
\* received chain never panics, and a record whose category no rule matches
\* is handed to no processor while processChain goes on and returns nil.
C34_NoDefaultDrops ==
  /\ [](svOc = OcNoDefault => svProcResult # "panic")
  /\ [][(svOc = OcNoDefault /\ svPc = "dispatch" /\ svProcResult' # "err"
          /\ ProcessorOf(svChain[1]) = Nil) =>
          /\ svOut' = svOut
          /\ Len(svChain') < Len(svChain)
          /\ svChain' = <<>> => svProcResult' = "ok"]_vars

\* ------------------------------------------------------ closing an input

\* C35: Input.close closes a connection only while serve is not between
\* taking the connection's mutex after a Read and the end of the
\* acknowledgement; when Input.close has returned, Input.run has returned and
\* no connection is registered for the input any more.
C35_CloseUnderConnLock ==
  /\ [][\A c \in Conns :
          (hToClose' # hToClose /\ cOpen[c] /\ ~cOpen'[c]) =>
            cPc[c] \notin {"route", "write", "ack"}]_vars
  /\ []((inClosing /\ hPc \in {"rc_wait", "idle"}) =>
          inRun = "returned" /\ inConnections = {})

\* Input.close has closed a connection whose serve was waiting in Read, and
\* has returned before that serve noticed
C35_Witness ==
  /\ inClosing /\ hPc = "rc_wait"
  /\ \E c \in Conns : cPc[c] = "read" /\ ~cOpen[c]

\* --------------------------------------------- the effect of Reconfigure

\* C36: when Reconfigure(config) has returned, an input whose address config
\* does not list is no longer active and its listener and connections are
\* closed; an input whose address config lists is still active with its
\* listener and connections as they were; and a newly listed address for
\* which net.Listen succeeded has exactly one active input.
C36_ReconfigureInputs ==
  [][rcCount' # rcCount =>
       /\ \A k \in DOMAIN imInputs :
            IF imInputs[k].address \notin Range(rcLast'.config)
            THEN /\ ~rcListeners'[imInputs[k].l].open
                 /\ rcListeners'[imInputs[k].l].conns = 0
                 /\ imInputs[k] \notin Range(imInputs')
            ELSE /\ imInputs[k] \in Range(imInputs')
                 /\ rcListeners'[imInputs[k].l] = rcListeners[imInputs[k].l]
       /\ \A a \in Range(rcLast'.config) \ InputAddrs(imInputs) :
            rcLast'.out[a] # "listen" =>
              Cardinality({k \in DOMAIN imInputs' : imInputs'[k].address = a}) = 1]_vars

\* ------------------------------------------------ the daily sink's handle

\* C37: a call of GetWriter that returns without error returns a handle that
\* is not nil and whose file is open; and a call whose rotation failed leaves
\* nextRotation before its own now, so that the next call rotates again.
C37_HandleIsOpenFile ==
  [][\A p \in Procs :
       /\ (gPc[p] # "holding" /\ gPc'[p] = "holding") =>
            /\ gHandle'[p] # Nil
            /\ dFiles'[gHandle'[p]].open
       /\ (gPc[p] = "rotate" /\ gPc'[p] = "idle") => nextRotation' < gNow[p]]_vars

\* ------------------------------------------------- the upstream sessions

\* C38: a state task that ends (by starting runConnecting or by signalling
\* completion) leaves no session open behind it: the session it held has
\* been closed.
C38_NoSessionLeak ==
  pc \in {"cg_enter", "exited"} => ~remoteConnection

\* --------------------------------------------- the producer-side writer

\* C39: a chain whose send failed stays in Run's hand for the next
\* connection, and when Run has returned every message AddMessage accepted
\* has reached the upstream.
C39_FailedChainSentAgain ==
  /\ [][(nwPc = "write" /\ nwPc' = "connect") => nwMsg' = nwMsg]_vars
  /\ [](nwPc = "returned" => nwAccepted \subseteq Range(nwSent))

\* C40: AddMessage on a closed writer returns the error and leaves pending as
\* it was; on an open writer it returns nil and the message is the last of
\* pending; and nothing but accepted messages reaches the upstream.
C40_ClosedMeansNotQueued ==
  /\ [][nwNextMsg' # nwNextMsg =>
          IF nwClosed
          THEN nwPending' = nwPending /\ nwAccepted' = nwAccepted
          ELSE /\ nwPending' = Append(nwPending, nwNextMsg)
               /\ nwAccepted' = nwAccepted \cup {nwNextMsg}]_vars
  /\ [](Range(nwSent) \subseteq nwAccepted)

====
